---------------------------- MODULE Spec2Model ----------------------------
(***************************************************************************)
(* Calvero scheduling app: the availability-resolution engine              *)
(* (getAvailableSlots, getAvailableDates, computeAvailableSlots,           *)
(* computeAvailableDates) and the booking-commit protocol (createBooking,  *)
(* checkSlotAvailable).                                                    *)
(*                                                                         *)
(* Time.  An instant is an integer number of ticks.  One tick is the       *)
(* resolution of an instant and, at the scale of the model, also one       *)
(* minute: addMinutes(t, m) = t + m.  A local calendar day is DayLen       *)
(* ticks; startOfDay rounds down to a multiple of DayLen and endOfDay is   *)
(* the last tick of the day (date-fns: 23:59:59.999), one tick before the  *)
(* next day's start.                                                       *)
(***************************************************************************)
EXTENDS Integers, Sequences, FiniteSets

\* ------------------------------------------------------------------ bounds
DayLen == 5          \* ticks per calendar day
MaxInstant == 6      \* instants of the query model are 0..MaxInstant
MaxDuration == 2     \* slotDurationMinutes ranges over 1..MaxDuration
NumReq == 2          \* createBooking requests in one run
MaxReqTime == 2      \* startTime/endTime of a request range over 0..MaxReqTime
MaxPlanLimit == 2    \* the host's plan allows 1..MaxPlanLimit bookings a month
NumSave == 2         \* saveAvailability calls in one run
MaxTextLen == 5      \* the texts given to generateSlug have at most MaxTextLen characters

VARIABLES
    availability,   \* host.availability: the stored sequence of windows
    bookings,       \* the store's booking documents of the host
    declined,       \* calendar: ids of events whose guest attendee declined
    busy,           \* calendar: the busy intervals of the connected accounts
    hasAccount,     \* host has a default connected account with both tokens
    planLimit,      \* PLAN_LIMITS[plan].maxBookingsPerMonth of the host
    req,            \* the createBooking requests, one record per request
    call,           \* the last availability query: its inputs and its answer
    users,          \* the store's user documents, in the order of their creation
    save            \* the saveAvailability calls, one record per call

vars ==
    <<availability, bookings, declined, busy, hasAccount, planLimit, req, call, users, save>>

HostSlug == "host"
HostId == "user-host"
Procs == 1..NumReq
ReqTimes == 0..MaxReqTime
Instants == 0..MaxInstant
Durations == 1..MaxDuration

\* ------------------------------------------------------------ date-fns
startOfDay(t) == t - (t % DayLen)
endOfDay(t) == startOfDay(t) + DayLen - 1
addMinutes(t, m) == t + m
addDays(t, n) == t + n * DayLen
isWithinInterval(t, s, e) == t >= s /\ t <= e

\* the set of the entries of an array
Range(s) == {s[i] : i \in DOMAIN s}

\* ----------------------------------------------------------- the store
\* client.fetch(HOST_BY_SLUG_WITH_TOKENS_QUERY, {slug}): the host or null
HostBySlug(slug) == IF slug = HostSlug THEN HostId ELSE "null"

\* client.fetch(BOOKINGS_IN_RANGE_QUERY, {hostId, startDate, endDate}):
\* the host's bookings overlapping the range
BookingsInRange(store, hostId, startDate, endDate) ==
    {b \in store : b.host = hostId /\ b.startTime < endDate /\ b.endTime > startDate}

\* getHostBookingQuotaStatus(hostSlug).isExceeded: used >= limit
QuotaExceeded(store, hostId, limit) ==
    Cardinality({b \in store : b.host = hostId}) >= limit

\* ------------------------------------------------- checkSlotAvailable
\* the bookings whose attendee status is looked up: those overlapping the
\* window that carry an event id (and a guest email, which every booking has)
SlotLookups(existingBookings, startTime, endTime) ==
    {b \in existingBookings :
        /\ startTime < b.endTime /\ endTime > b.startTime
        /\ b.googleEventId # 0}

\* a slip: a lookup that threw counts as a declined guest
DeclinedIdsFailedCounts(lookups, failed, declinedEvents) ==
    {b.id : b \in {x \in lookups : x.id \in failed \/ x.googleEventId \in declinedEvents}}

\* a slip: every status that comes back counts as declined
DeclinedIdsAnyStatus(lookups, failed, declinedEvents) ==
    {b.id : b \in {x \in lookups : x.id \notin failed}}

\* declinedBookingIds: the looked-up bookings whose status came back
\* "declined"; a lookup in `failed` threw and adds nothing
DeclinedIds(lookups, failed, declinedEvents) ==
    {b.id : b \in {x \in lookups : x.id \notin failed /\ x.googleEventId \in declinedEvents}}

\* a slip: only the bookings that start inside the window are tested
SlotFreeStartInside(existingBookings, declinedBookingIds, startTime, endTime) ==
    ~ \E b \in existingBookings :
        /\ b.id \notin declinedBookingIds
        /\ startTime <= b.startTime /\ b.startTime < endTime

\* the final predicate of checkSlotAvailable
SlotFree(existingBookings, declinedBookingIds, startTime, endTime) ==
    ~ \E b \in existingBookings :
        /\ b.id \notin declinedBookingIds
        /\ startTime < b.endTime /\ endTime > b.startTime

checkSlotAvailable(store, hostId, account, declinedEvents, failed, startTime, endTime) ==
    LET existingBookings == BookingsInRange(store, hostId, startTime, endTime)
        lookups == IF account THEN SlotLookups(existingBookings, startTime, endTime) ELSE {}
    IN  SlotFree(existingBookings, DeclinedIds(lookups, failed, declinedEvents),
                 startTime, endTime)

\* ------------------------------------------------------ createBooking
NoReq ==
    [pc |-> "idle", hostSlug |-> HostSlug, startTime |-> 0, endTime |-> 0,
     googleEventId |-> 0, meetLink |-> FALSE, eventThrew |-> FALSE,
     blockedAtIssue |-> FALSE, blockedAtRead |-> FALSE, revalidated |-> FALSE,
     overlapped |-> FALSE, outcome |-> "none"]

NoCall ==
    [op |-> "none", date |-> 0, endDate |-> 0, duration |-> 1, now |-> 0,
     outcome |-> "none", busyThrew |-> FALSE, declinedIds |-> {},
     slots |-> <<>>, dates |-> <<>>, hostFound |-> TRUE,
     calls |-> 0, failed |-> {}, again |-> <<>>, candidates |-> <<>>,
     pc |-> "none", window |-> 0, currentStart |-> 0, currentDate |-> 0,
     pending |-> {}, completed |-> <<>>,
     text |-> <<>>, slug |-> <<>>, slugAgain |-> <<>>]

\* a booking of the store blocks a window when it overlaps it and its guest
\* has not declined (the calendar's truth, whatever a lookup may report)
Blocking(store, declinedEvents, hostId, startTime, endTime) ==
    \E b \in store :
        /\ b.host = hostId
        /\ startTime < b.endTime /\ endTime > b.startTime
        /\ ~(b.googleEventId # 0 /\ b.googleEventId \in declinedEvents)

\* the requests a guest can submit: for the host, any window with
\* start < end, one empty window and one inverted window (the code checks
\* neither); and one request for a slug nobody owns
Requests ==
    {r \in [hostSlug : {HostSlug}, startTime : ReqTimes, endTime : ReqTimes] :
        \/ r.startTime < r.endTime
        \/ (r.startTime = 1 /\ r.endTime = 1)
        \/ (r.startTime = MaxReqTime /\ r.endTime = 0)}
      \cup {[hostSlug |-> "nobody", startTime |-> 0, endTime |-> 1]}

\* the requests that have started and not ended
InFlight == {q \in Procs : req[q].pc \in {"check", "event", "persist"}}

\* a request that starts while others are in flight overlaps them in time:
\* req with each of them marked
Overlapping(p) ==
    [q \in Procs |-> IF q \in InFlight THEN [req[q] EXCEPT !.overlapped = TRUE] ELSE req[q]]

\* a slip: the quota status is read but its isExceeded flag is not acted upon
BeginIgnoresQuota(p, data) ==
    /\ req[p].pc = "idle"
    /\ \A q \in Procs : q < p => req[q].pc # "idle"
    /\ LET host == HostBySlug(data.hostSlug)
           r == [req[p] EXCEPT !.hostSlug = data.hostSlug, !.startTime = data.startTime,
                               !.endTime = data.endTime,
                               !.overlapped = InFlight # {},
                               !.blockedAtIssue =
                                   Blocking(bookings, declined, host, data.startTime,
                                            data.endTime)]
       IN req' = [Overlapping(p) EXCEPT ![p] =
                    IF host = "null"
                    THEN [r EXCEPT !.pc = "done", !.outcome = "NotFound"]
                    ELSE [r EXCEPT !.pc = "check"]]
    /\ UNCHANGED <<availability, bookings, declined, busy, hasAccount, planLimit, call, users, save>>

\* a slip: the host is over quota only once the count is above the limit
BeginQuotaOffByOne(p, data) ==
    /\ req[p].pc = "idle"
    /\ \A q \in Procs : q < p => req[q].pc # "idle"
    /\ LET host == HostBySlug(data.hostSlug)
           r == [req[p] EXCEPT !.hostSlug = data.hostSlug, !.startTime = data.startTime,
                               !.endTime = data.endTime,
                               !.overlapped = InFlight # {},
                               !.blockedAtIssue =
                                   Blocking(bookings, declined, host, data.startTime,
                                            data.endTime)]
       IN req' = [Overlapping(p) EXCEPT ![p] =
                    IF host = "null"
                    THEN [r EXCEPT !.pc = "done", !.outcome = "NotFound"]
                    ELSE IF QuotaExceeded(bookings, host, planLimit + 1)
                    THEN [r EXCEPT !.pc = "done", !.outcome = "QuotaExceeded"]
                    ELSE [r EXCEPT !.pc = "check"]]
    /\ UNCHANGED <<availability, bookings, declined, busy, hasAccount, planLimit, call, users,
                   save>>

\* steps 1 and 2: the host is resolved by slug, then the monthly quota is
\* read.  The request has written nothing yet and the host document never
\* changes, so the two reads are one step, taken at the quota read.
Begin(p, data) ==
    /\ req[p].pc = "idle"
    /\ \A q \in Procs : q < p => req[q].pc # "idle"
    /\ LET host == HostBySlug(data.hostSlug)
           r == [req[p] EXCEPT !.hostSlug = data.hostSlug, !.startTime = data.startTime,
                               !.endTime = data.endTime,
                               !.overlapped = InFlight # {},
                               !.blockedAtIssue =
                                   Blocking(bookings, declined, host, data.startTime,
                                            data.endTime)]
       IN req' = [Overlapping(p) EXCEPT ![p] =
                    IF host = "null"
                    THEN [r EXCEPT !.pc = "done", !.outcome = "NotFound"]
                    ELSE IF QuotaExceeded(bookings, host, planLimit)
                    THEN [r EXCEPT !.pc = "done", !.outcome = "QuotaExceeded"]
                    ELSE [r EXCEPT !.pc = "check"]]
    /\ UNCHANGED <<availability, bookings, declined, busy, hasAccount, planLimit, call, users, save>>

\* a slip: the calendar event is created before the slot is re-validated, so
\* a rejected request leaves its event behind
RevalidateAfterEvent(p) ==
    /\ req[p].pc = "check"
    /\ LET hostId == HostBySlug(req[p].hostSlug)
           s == req[p].startTime
           e == req[p].endTime
       IN \E failed \in SUBSET {b.id : b \in bookings} :
            LET isAvailable ==
                  checkSlotAvailable(bookings, hostId, hasAccount, declined, failed, s, e)
                blocked == Blocking(bookings, declined, hostId, s, e)
            IN req' = [req EXCEPT ![p] =
                         IF isAvailable
                         THEN [@ EXCEPT !.pc = "event", !.blockedAtRead = blocked,
                                        !.revalidated = TRUE]
                         ELSE [@ EXCEPT !.pc = "done", !.blockedAtRead = blocked,
                                        !.googleEventId = IF hasAccount THEN p ELSE 0,
                                        !.outcome = "SlotUnavailable"]]
    /\ UNCHANGED <<availability, bookings, declined, busy, hasAccount, planLimit, call, users, save>>

\* step 4: re-validation (the read of the store and the joined lookups)
Revalidate(p) ==
    /\ req[p].pc = "check"
    /\ LET hostId == HostBySlug(req[p].hostSlug)
           s == req[p].startTime
           e == req[p].endTime
       IN \E failed \in SUBSET {b.id : b \in bookings} :
            LET isAvailable ==
                  checkSlotAvailable(bookings, hostId, hasAccount, declined, failed, s, e)
                blocked == Blocking(bookings, declined, hostId, s, e)
            IN req' = [req EXCEPT ![p] =
                         IF isAvailable
                         THEN [@ EXCEPT !.pc = "event", !.blockedAtRead = blocked,
                                        !.revalidated = TRUE]
                         ELSE [@ EXCEPT !.pc = "done", !.blockedAtRead = blocked,
                                        !.outcome = "SlotUnavailable"]]
    /\ UNCHANGED <<availability, bookings, declined, busy, hasAccount, planLimit, call, users, save>>

\* step 6, no default account with tokens: no event is attempted
EventSkipped(p) ==
    /\ req[p].pc = "event"
    /\ ~hasAccount
    /\ req' = [req EXCEPT ![p].pc = "persist"]
    /\ UNCHANGED <<availability, bookings, declined, busy, hasAccount, planLimit, call, users, save>>

\* step 6, calendar.events.insert answers: the event exists, with the
\* conference link the request asked for
EventCreated(p) ==
    /\ req[p].pc = "event"
    /\ hasAccount
    /\ req' = [req EXCEPT ![p] = [@ EXCEPT !.pc = "persist", !.googleEventId = p,
                                           !.meetLink = TRUE]]
    /\ UNCHANGED <<availability, bookings, declined, busy, hasAccount, planLimit, call, users, save>>

\* a slip: the calendar's error is not caught and ends the request
EventThrowsAborts(p) ==
    /\ req[p].pc = "event"
    /\ hasAccount
    /\ req' = [req EXCEPT ![p] = [@ EXCEPT !.pc = "done", !.eventThrew = TRUE,
                                           !.outcome = "CalendarError"]]
    /\ UNCHANGED <<availability, bookings, declined, busy, hasAccount, planLimit, call, users, save>>

\* step 6, getCalendarClient or events.insert throws: caught, logged
EventThrows(p) ==
    /\ req[p].pc = "event"
    /\ hasAccount
    /\ req' = [req EXCEPT ![p] = [@ EXCEPT !.pc = "persist", !.eventThrew = TRUE]]
    /\ UNCHANGED <<availability, bookings, declined, busy, hasAccount, planLimit, call, users, save>>

\* a slip that would close the race: the create is conditional on the window
\* still being free
PersistIfStillFree(p) ==
    /\ req[p].pc = "persist"
    /\ IF Blocking(bookings, declined, HostBySlug(req[p].hostSlug), req[p].startTime,
                   req[p].endTime)
       THEN /\ req' = [req EXCEPT ![p] =
                         [@ EXCEPT !.pc = "done", !.outcome = "SlotUnavailable"]]
            /\ bookings' = bookings
       ELSE /\ bookings' = bookings \cup
                 {[id |-> p, host |-> HostBySlug(req[p].hostSlug),
                   startTime |-> req[p].startTime, endTime |-> req[p].endTime,
                   googleEventId |-> req[p].googleEventId, meetLink |-> req[p].meetLink,
                   status |-> "confirmed"]}
            /\ req' = [req EXCEPT ![p] = [@ EXCEPT !.pc = "done", !.outcome = "ok"]]
    /\ UNCHANGED <<availability, declined, busy, hasAccount, planLimit, call, users, save>>

\* a slip: the booking document is written without the event's id and link
PersistDropsEventId(p) ==
    /\ req[p].pc = "persist"
    /\ bookings' = bookings \cup
         {[id |-> p, host |-> HostBySlug(req[p].hostSlug),
           startTime |-> req[p].startTime, endTime |-> req[p].endTime,
           googleEventId |-> 0, meetLink |-> FALSE, status |-> "confirmed"]}
    /\ req' = [req EXCEPT ![p] = [@ EXCEPT !.pc = "done", !.outcome = "ok"]]
    /\ UNCHANGED <<availability, declined, busy, hasAccount, planLimit, call, users, save>>

\* step 7: writeClient.create of the booking document
Persist(p) ==
    /\ req[p].pc = "persist"
    /\ bookings' = bookings \cup
         {[id |-> p, host |-> HostBySlug(req[p].hostSlug),
           startTime |-> req[p].startTime, endTime |-> req[p].endTime,
           googleEventId |-> req[p].googleEventId, meetLink |-> req[p].meetLink,
           status |-> "confirmed"]}
    /\ req' = [req EXCEPT ![p] = [@ EXCEPT !.pc = "done", !.outcome = "ok"]]
    /\ UNCHANGED <<availability, declined, busy, hasAccount, planLimit, call, users, save>>

\* the calendar: the guest of an existing event declines the invitation
GuestDeclines(ev) ==
    /\ \E p \in Procs : req[p].googleEventId = ev /\ req[p].pc \in {"persist", "done"}
    /\ ev \notin declined
    /\ declined' = declined \cup {ev}
    /\ UNCHANGED <<availability, bookings, busy, hasAccount, planLimit, req, call, users, save>>

\* ---------------------------------------------------- saveAvailability
ClerkId == "clerk-host"
Savers == 1..NumSave

\* Date.prototype.toISOString and parseISO: an instant is written as its
\* calendar day and its time of day, and read back from the two
\* a slip: the instant is written as its date only
toISOStringDateOnly(t) == [day |-> t \div DayLen, time |-> 0]

toISOString(t) == [day |-> t \div DayLen, time |-> t % DayLen]
parseISO(s) == s.day * DayLen + s.time

NoSave ==
    [pc |-> "idle", userId |-> "null", blocks |-> <<>>, user |-> 0,
     result |-> <<>>, outcome |-> "none", slug |-> 0]

\* client.fetch(USER_ID_BY_CLERK_ID_QUERY, {clerkId}): the _id of the user
\* document of that identity (the first one, should there be several), or 0
UserIdByClerkId(docs, clerkId) ==
    IF \E i \in DOMAIN docs : docs[i].clerkId = clerkId
    THEN CHOOSE i \in DOMAIN docs :
             /\ docs[i].clerkId = clerkId
             /\ \A j \in DOMAIN docs : docs[j].clerkId = clerkId => i <= j
    ELSE 0

\* sanityBlocks: one entry per block, in the order of the blocks, each with
\* a new key.  crypto.randomUUID() is a key no other call of it returns: the
\* pair of the call and the position stands for it
SanityBlocks(p, blocks) ==
    [i \in DOMAIN blocks |->
        [_key |-> <<p, i>>,
         startDateTime |-> toISOString(blocks[i].start),
         endDateTime |-> toISOString(blocks[i].end)]]

\* the array saveAvailability returns
SavedBlocks(sanityBlocks) ==
    [i \in DOMAIN sanityBlocks |->
        [id |-> sanityBlocks[i]._key,
         start |-> sanityBlocks[i].startDateTime,
         end |-> sanityBlocks[i].endDateTime]]

\* a slip: the identity is read but its absence is not checked
SaveAuthUnchecked(p, userId, blocks) ==
    /\ save[p].pc = "idle"
    /\ \A q \in Savers : q < p => save[q].pc # "idle"
    /\ save' = [save EXCEPT ![p] =
                  [@ EXCEPT !.pc = "fetchUser", !.userId = userId, !.blocks = blocks]]
    /\ UNCHANGED <<availability, bookings, declined, busy, hasAccount, planLimit, req, call,
                   users>>

\* auth(): the caller's identity, or none: "Unauthorized"
SaveAuth(p, userId, blocks) ==
    /\ save[p].pc = "idle"
    /\ \A q \in Savers : q < p => save[q].pc # "idle"
    /\ save' = [save EXCEPT ![p] =
                  IF userId = "null"
                  THEN [@ EXCEPT !.pc = "done", !.blocks = blocks,
                                 !.outcome = "Unauthorized"]
                  ELSE [@ EXCEPT !.pc = "fetchUser", !.userId = userId,
                                 !.blocks = blocks]]
    /\ UNCHANGED <<availability, bookings, declined, busy, hasAccount, planLimit, req, call,
                   users>>

\* getOrCreateUser: the fetch of the existing user
SaveFetchUser(p) ==
    /\ save[p].pc = "fetchUser"
    /\ LET existingUser == UserIdByClerkId(users, save[p].userId)
       IN save' = [save EXCEPT ![p] =
                     IF existingUser # 0
                     THEN [@ EXCEPT !.pc = "patch", !.user = existingUser]
                     ELSE [@ EXCEPT !.pc = "create"]]
    /\ UNCHANGED <<availability, bookings, declined, busy, hasAccount, planLimit, req, call,
                   users>>

\* getOrCreateUser: currentUser() has no profile: "User not found in Clerk"
SaveClerkUserMissing(p) ==
    /\ save[p].pc = "create"
    /\ save' = [save EXCEPT ![p] = [@ EXCEPT !.pc = "done", !.outcome = "ClerkUserMissing"]]
    /\ UNCHANGED <<availability, bookings, declined, busy, hasAccount, planLimit, req, call,
                   users>>

\* getOrCreateUser: writeClient.create of the user document, availability []
SaveCreateUser(p) ==
    /\ save[p].pc = "create"
    /\ users' = Append(users, [clerkId |-> save[p].userId, availability |-> <<>>,
                               writer |-> 0, slug |-> 0])
    /\ save' = [save EXCEPT ![p] = [@ EXCEPT !.pc = "patch", !.user = Len(users) + 1]]
    /\ UNCHANGED <<availability, bookings, declined, busy, hasAccount, planLimit, req, call>>

\* a slip: the patch appends the new blocks to the stored array
SavePatchAppends(p) ==
    /\ save[p].pc = "patch"
    /\ LET sanityBlocks == SanityBlocks(p, save[p].blocks)
       IN /\ users' = [users EXCEPT ![save[p].user] =
                         [@ EXCEPT !.availability = @ \o sanityBlocks, !.writer = p]]
          /\ save' = [save EXCEPT ![p] =
                        [@ EXCEPT !.pc = "done", !.result = SavedBlocks(sanityBlocks),
                                  !.outcome = "ok"]]
    /\ UNCHANGED <<availability, bookings, declined, busy, hasAccount, planLimit, req, call>>

\* the blocks are converted, the patch that sets the whole availability array
\* is committed, and the converted blocks are returned.  `writer` records
\* the call whose patch a document holds
SavePatch(p) ==
    /\ save[p].pc = "patch"
    /\ LET sanityBlocks == SanityBlocks(p, save[p].blocks)
       IN /\ users' = [users EXCEPT ![save[p].user] =
                         [@ EXCEPT !.availability = sanityBlocks, !.writer = p]]
          /\ save' = [save EXCEPT ![p] =
                        [@ EXCEPT !.pc = "done", !.result = SavedBlocks(sanityBlocks),
                                  !.outcome = "ok"]]
    /\ UNCHANGED <<availability, bookings, declined, busy, hasAccount, planLimit, req, call>>

\* host.availability as the queries read it: the stored windows, parsed
StoredWindows(doc) ==
    [i \in DOMAIN doc.availability |->
        [start |-> parseISO(doc.availability[i].startDateTime),
         end |-> parseISO(doc.availability[i].endDateTime)]]

\* the instants of the submitted blocks, which nothing validates: a block may
\* be empty or inverted
SaveTimes == {0, MaxInstant}
SaveBlocks == [start : SaveTimes, end : SaveTimes]
SaveInputs ==
    {<<>>} \cup {<<b>> : b \in SaveBlocks}
           \cup {<<b, c>> : b \in {x \in SaveBlocks : x.start < x.end}, c \in SaveBlocks}

\* the availability a document holds before any call: saved by an earlier
\* session, under a key of that session
OldAvailability ==
    <<[_key |-> <<0, 1>>, startDateTime |-> toISOString(0), endDateTime |-> toISOString(1)]>>

SaveInit ==
    /\ availability = <<>>
    /\ bookings = {}
    /\ declined = {}
    /\ busy = {}
    /\ hasAccount = FALSE
    /\ planLimit = MaxPlanLimit
    /\ req = [p \in Procs |-> NoReq]
    /\ call = NoCall
    /\ users \in {<<>>,
                  <<[clerkId |-> ClerkId, availability |-> OldAvailability, writer |-> 0,
                     slug |-> 0]>>}
    /\ save = [p \in Savers |-> NoSave]

SaveNext ==
    \/ \E p \in Savers, userId \in {ClerkId, "null"}, blocks \in SaveInputs :
           SaveAuth(p, userId, blocks)
    \/ \E p \in Savers : SaveFetchUser(p)
    \/ \E p \in Savers : SaveClerkUserMissing(p)
    \/ \E p \in Savers : SaveCreateUser(p)
    \/ \E p \in Savers : SavePatch(p)

SpecSave == SaveInit /\ [][SaveNext]_vars

Windows(T) == {w \in [start : T, end : T] : w.start < w.end}

Init ==
    /\ availability = <<[start |-> 0, end |-> 1]>>
    /\ bookings = {}
    /\ declined = {}
    /\ busy = {}
    /\ hasAccount \in BOOLEAN
    /\ planLimit \in {1, MaxPlanLimit}
    /\ req = [p \in Procs |-> NoReq]
    /\ call = NoCall
    /\ users = <<>>
    /\ save = [p \in Savers |-> NoSave]

Next ==
    \/ \E p \in Procs, data \in Requests : Begin(p, data)
    \/ \E p \in Procs : Revalidate(p)
    \/ \E p \in Procs : EventSkipped(p)
    \/ \E p \in Procs : EventCreated(p)
    \/ \E p \in Procs : EventThrows(p)
    \/ \E p \in Procs : Persist(p)
    \/ \E ev \in Procs : GuestDeclines(ev)

Spec == Init /\ [][Next]_vars

\* ======================================================================
\* The availability queries
\* ======================================================================

\* getGoogleBusyTimes -> fetchCalendarEvents(connectedAccounts, start, end):
\* the busy intervals of the connected accounts in the range; a host without
\* a connected account has none
BusyInRange(account, calendarBusy, startDate, endDate) ==
    IF account
    THEN {x \in calendarBusy : x.start < endDate /\ x.end > startDate}
    ELSE {}

\* the filter that selects the availability blocks of a day
RelevantWindow(w, dayStart, dayEnd) ==
    \/ isWithinInterval(w.start, dayStart, dayEnd)
    \/ isWithinInterval(w.end, dayStart, dayEnd)
    \/ (w.start <= dayStart /\ w.end >= dayEnd)

AvailabilityForDate(avail, dayStart, dayEnd) ==
    SelectSeq(avail, LAMBDA w : RelevantWindow(w, dayStart, dayEnd))

\* "Clamp to the requested date"
ClampStart(w, dayStart) == IF w.start < dayStart THEN dayStart ELSE w.start
ClampEnd(w, dayEnd) == IF w.end > dayEnd THEN dayEnd ELSE w.end

\* a slip: the loop advances by one minute instead of by the slot duration
RECURSIVE SlotsFromEveryMinute(_, _, _)
SlotsFromEveryMinute(currentStart, slotEnd, d) ==
    IF addMinutes(currentStart, d) <= slotEnd
    THEN <<[start |-> currentStart, end |-> addMinutes(currentStart, d)]>>
           \o SlotsFromEveryMinute(addMinutes(currentStart, 1), slotEnd, d)
    ELSE <<>>

\* a slip: the loop runs while the slot starts before the end of the window
RECURSIVE SlotsFromPartial(_, _, _)
SlotsFromPartial(currentStart, slotEnd, d) ==
    IF currentStart < slotEnd
    THEN <<[start |-> currentStart, end |-> addMinutes(currentStart, d)]>>
           \o SlotsFromPartial(addMinutes(currentStart, d), slotEnd, d)
    ELSE <<>>

\* the while loop of getAvailableSlots: the slots of one clamped window
RECURSIVE SlotsFrom(_, _, _)
SlotsFrom(currentStart, slotEnd, d) ==
    IF addMinutes(currentStart, d) <= slotEnd
    THEN <<[start |-> currentStart, end |-> addMinutes(currentStart, d)]>>
           \o SlotsFrom(addMinutes(currentStart, d), slotEnd, d)
    ELSE <<>>

\* the for loop of getAvailableSlots: allSlots, window after window in the
\* stored order
RECURSIVE AllSlots(_, _, _, _)
AllSlots(windows, dayStart, dayEnd, d) ==
    IF windows = <<>>
    THEN <<>>
    ELSE SlotsFrom(ClampStart(Head(windows), dayStart), ClampEnd(Head(windows), dayEnd), d)
           \o AllSlots(Tail(windows), dayStart, dayEnd, d)

\* a slip: a slot conflicts only when it lies inside the booking
HasBookingConflictInside(slotStart, slotEnd, activeBookings) ==
    \E b \in activeBookings : slotStart >= b.startTime /\ slotEnd <= b.endTime

\* a slip: touching endpoints count as a conflict
HasBookingConflictClosed(slotStart, slotEnd, activeBookings) ==
    \E b \in activeBookings : slotStart <= b.endTime /\ slotEnd >= b.startTime

HasBookingConflict(slotStart, slotEnd, activeBookings) ==
    \E b \in activeBookings : slotStart < b.endTime /\ slotEnd > b.startTime

\* a slip: a busy interval conflicts only when the slot starts inside it
HasBusyConflictStartInside(slotStart, slotEnd, busyTimes) ==
    \E x \in busyTimes : slotStart >= x.start /\ slotStart < x.end

HasBusyConflict(slotStart, slotEnd, busyTimes) ==
    \E x \in busyTimes : slotStart < x.end /\ slotEnd > x.start

\* step 4 of getAvailableSlots: every fetched booking with an event id is
\* looked up; declinedBookingIds are those that came back "declined"
DayDeclinedIds(account, existingBookings, failed, declinedEvents) ==
    IF account
    THEN DeclinedIds({b \in existingBookings : b.googleEventId # 0}, failed, declinedEvents)
    ELSE {}

\* steps 6 and 7 of getAvailableSlots
AvailableSlots(windows, activeBookings, busyTimes, dayStart, dayEnd, d) ==
    SelectSeq(AllSlots(windows, dayStart, dayEnd, d),
              LAMBDA slot :
                  /\ ~HasBookingConflict(slot.start, slot.end, activeBookings)
                  /\ ~HasBusyConflict(slot.start, slot.end, busyTimes))

\* getAvailableSlots once the host is found and the busy times are fetched
getAvailableSlots(avail, store, hostId, declinedIds, busyTimes, date, d) ==
    LET dayStart == startOfDay(date)
        dayEnd == endOfDay(date)
        availabilityForDate == AvailabilityForDate(avail, dayStart, dayEnd)
        existingBookings == BookingsInRange(store, hostId, dayStart, dayEnd)
        activeBookings == {b \in existingBookings : b.id \notin declinedIds}
    IN  IF availabilityForDate = <<>>
        THEN <<>>
        ELSE AvailableSlots(availabilityForDate, activeBookings, busyTimes,
                            dayStart, dayEnd, d)

\* the while loop of computeAvailableSlots: past slots and conflicting slots
\* are skipped as they are generated
RECURSIVE ComputeSlotsFrom(_, _, _, _, _, _)
ComputeSlotsFrom(currentStart, slotEnd, d, now, bookingSlots, busyTimes) ==
    IF addMinutes(currentStart, d) <= slotEnd
    THEN LET currentEnd == addMinutes(currentStart, d)
             rest == ComputeSlotsFrom(currentEnd, slotEnd, d, now, bookingSlots, busyTimes)
         IN  IF currentStart < now
             THEN rest
             ELSE IF ~HasBookingConflict(currentStart, currentEnd, bookingSlots)
                     /\ ~HasBusyConflict(currentStart, currentEnd, busyTimes)
             THEN <<[start |-> currentStart, end |-> currentEnd]>> \o rest
             ELSE rest
    ELSE <<>>

RECURSIVE ComputeAllSlots(_, _, _, _, _, _, _)
ComputeAllSlots(windows, dayStart, dayEnd, d, now, bookingSlots, busyTimes) ==
    IF windows = <<>>
    THEN <<>>
    ELSE ComputeSlotsFrom(ClampStart(Head(windows), dayStart),
                          ClampEnd(Head(windows), dayEnd), d, now, bookingSlots, busyTimes)
           \o ComputeAllSlots(Tail(windows), dayStart, dayEnd, d, now, bookingSlots, busyTimes)

computeAvailableSlots(avail, bookingSlots, date, d, busyTimes, now) ==
    ComputeAllSlots(AvailabilityForDate(avail, startOfDay(date), endOfDay(date)),
                    startOfDay(date), endOfDay(date), d, now, bookingSlots, busyTimes)

\* checkDayHasAvailableSlot: the probe of one day
RECURSIVE ProbeFrom(_, _, _, _, _)
ProbeFrom(currentStart, slotEnd, d, bookingSlots, busyTimes) ==
    IF addMinutes(currentStart, d) <= slotEnd
    THEN LET currentEnd == addMinutes(currentStart, d)
         IN  IF ~HasBookingConflict(currentStart, currentEnd, bookingSlots)
                /\ ~HasBusyConflict(currentStart, currentEnd, busyTimes)
             THEN TRUE
             ELSE ProbeFrom(currentEnd, slotEnd, d, bookingSlots, busyTimes)
    ELSE FALSE

RECURSIVE checkDayHasAvailableSlot(_, _, _, _, _, _)
checkDayHasAvailableSlot(availabilityForDate, bookingSlots, dayStart, dayEnd, d, busyTimes) ==
    IF availabilityForDate = <<>>
    THEN FALSE
    ELSE \/ ProbeFrom(ClampStart(Head(availabilityForDate), dayStart),
                      ClampEnd(Head(availabilityForDate), dayEnd), d, bookingSlots, busyTimes)
         \/ checkDayHasAvailableSlot(Tail(availabilityForDate), bookingSlots, dayStart,
                                     dayEnd, d, busyTimes)

\* format(currentDate, "yyyy-MM-dd"): the calendar day of a local instant
FormatDay(t) == t \div DayLen

\* a slip: the days before today are not skipped
RECURSIVE DatesFromNoSkip(_, _, _, _, _, _, _)
DatesFromNoSkip(currentDate, today, avail, bookingSlots, endDate, d, busyTimes) ==
    IF currentDate <= endDate
    THEN LET rest == DatesFromNoSkip(addDays(currentDate, 1), today, avail, bookingSlots,
                                     endDate, d, busyTimes)
             dayStart == startOfDay(currentDate)
             dayEnd == endOfDay(currentDate)
             availabilityForDate == AvailabilityForDate(avail, dayStart, dayEnd)
         IN  IF availabilityForDate # <<>>
                /\ checkDayHasAvailableSlot(availabilityForDate, bookingSlots, dayStart,
                                            dayEnd, d, busyTimes)
             THEN <<FormatDay(currentDate)>> \o rest
             ELSE rest
    ELSE <<>>

\* a slip: the loop stops before the day that holds endDate
RECURSIVE DatesFromExclusiveEnd(_, _, _, _, _, _, _)
DatesFromExclusiveEnd(currentDate, today, avail, bookingSlots, endDate, d, busyTimes) ==
    IF endOfDay(currentDate) < endDate
    THEN LET rest == DatesFromExclusiveEnd(addDays(currentDate, 1), today, avail,
                                           bookingSlots, endDate, d, busyTimes)
             dayStart == startOfDay(currentDate)
             dayEnd == endOfDay(currentDate)
             availabilityForDate == AvailabilityForDate(avail, dayStart, dayEnd)
         IN  IF currentDate < today
             THEN rest
             ELSE IF availabilityForDate # <<>>
                     /\ checkDayHasAvailableSlot(availabilityForDate, bookingSlots, dayStart,
                                                 dayEnd, d, busyTimes)
             THEN <<FormatDay(currentDate)>> \o rest
             ELSE rest
    ELSE <<>>

\* the while loop of computeAvailableDates, from currentDate on
RECURSIVE DatesFrom(_, _, _, _, _, _, _)
DatesFrom(currentDate, today, avail, bookingSlots, endDate, d, busyTimes) ==
    IF currentDate <= endDate
    THEN LET rest == DatesFrom(addDays(currentDate, 1), today, avail, bookingSlots,
                               endDate, d, busyTimes)
             dayStart == startOfDay(currentDate)
             dayEnd == endOfDay(currentDate)
             availabilityForDate == AvailabilityForDate(avail, dayStart, dayEnd)
         IN  IF currentDate < today
             THEN rest
             ELSE IF availabilityForDate # <<>>
                     /\ checkDayHasAvailableSlot(availabilityForDate, bookingSlots, dayStart,
                                                 dayEnd, d, busyTimes)
             THEN <<FormatDay(currentDate)>> \o rest
             ELSE rest
    ELSE <<>>

computeAvailableDates(avail, bookingSlots, startDate, endDate, d, busyTimes, now) ==
    DatesFrom(startOfDay(startDate), startOfDay(now), avail, bookingSlots, endDate, d,
              busyTimes)

\* ---------------------------------------------------- the query actions
HostBookings == {b \in bookings : b.host = HostId}

\* getAvailableSlots for a slug nobody owns: "Host not found"
GetAvailableSlotsNoHost ==
    /\ call.op = "none"
    /\ HostBySlug("nobody") = "null"
    /\ call' = [NoCall EXCEPT !.op = "getAvailableSlots", !.outcome = "NotFound",
                              !.hostFound = FALSE]
    /\ UNCHANGED <<availability, bookings, declined, busy, hasAccount, planLimit, req, users, save>>

\* getAvailableSlots(hostSlug, date, d) with every fetch answering; the
\* attendee lookups of the bookings in `failed` throw
GetAvailableSlots(date, d, now, failed) ==
    /\ call.op = "none"
    /\ LET dayStart == startOfDay(date)
           dayEnd == endOfDay(date)
           existingBookings == BookingsInRange(bookings, HostId, dayStart, dayEnd)
           declinedIds == DayDeclinedIds(hasAccount, existingBookings, failed, declined)
           ran == AvailabilityForDate(availability, dayStart, dayEnd) # <<>>
       IN call' = [NoCall EXCEPT
                     !.op = "getAvailableSlots", !.date = date, !.duration = d,
                     !.now = now, !.outcome = "ok",
                     !.declinedIds = IF ran THEN declinedIds ELSE {},
                     !.failed = {b.id : b \in {x \in existingBookings :
                                    hasAccount /\ ran /\ x.googleEventId # 0 /\ x.id \in failed}},
                     !.candidates =
                         AllSlots(AvailabilityForDate(availability, dayStart, dayEnd),
                                  dayStart, dayEnd, d),
                     !.slots = getAvailableSlots(availability, bookings, HostId, declinedIds,
                                   BusyInRange(hasAccount, busy, dayStart, dayEnd), date, d)]
    /\ UNCHANGED <<availability, bookings, declined, busy, hasAccount, planLimit, req, users, save>>

\* getAvailableSlots when getGoogleBusyTimes throws: step 5 has no try/catch,
\* the error leaves the function
GetAvailableSlotsBusyThrows(date, d, now) ==
    /\ call.op = "none"
    /\ hasAccount
    /\ AvailabilityForDate(availability, startOfDay(date), endOfDay(date)) # <<>>
    /\ call' = [NoCall EXCEPT
                  !.op = "getAvailableSlots", !.date = date, !.duration = d, !.now = now,
                  !.outcome = "CalendarError", !.busyThrew = TRUE]
    /\ UNCHANGED <<availability, bookings, declined, busy, hasAccount, planLimit, req, users, save>>

\* computeAvailableSlots on the host's availability, bookings and busy times.
\* Its candidates are the slots its loop visits: those it returns when none
\* is past and none is taken
ComputeAvailableSlots(date, d, now) ==
    /\ call.op = "none"
    /\ call' = [NoCall EXCEPT
                  !.op = "computeAvailableSlots", !.date = date, !.duration = d,
                  !.now = now, !.outcome = "ok",
                  !.candidates = computeAvailableSlots(availability, {}, date, d, {}, 0),
                  !.slots = computeAvailableSlots(availability, HostBookings, date, d,
                                BusyInRange(hasAccount, busy, startOfDay(date), endOfDay(date)),
                                now)]
    /\ UNCHANGED <<availability, bookings, declined, busy, hasAccount, planLimit, req, users, save>>

\* getAvailableDates(hostSlug, startDate, endDate, d); when busyThrows, the
\* busy fetch throws, is caught, and busyTimes stays empty
GetAvailableDates(startDate, endDate, d, now, busyThrows) ==
    /\ call.op = "none"
    /\ busyThrows => hasAccount
    /\ LET existingBookings == BookingsInRange(bookings, HostId, startDate, endDate)
           busyTimes == IF busyThrows THEN {}
                        ELSE BusyInRange(hasAccount, busy, startDate, endDate)
       IN call' = [NoCall EXCEPT
                     !.op = "getAvailableDates", !.date = startDate, !.endDate = endDate,
                     !.duration = d, !.now = now, !.outcome = "ok",
                     !.busyThrew = busyThrows,
                     !.dates = computeAvailableDates(availability, existingBookings,
                                   startDate, endDate, d, busyTimes, now)]
    /\ UNCHANGED <<availability, bookings, declined, busy, hasAccount, planLimit, req, users, save>>

\* getAvailableDates for a slug nobody owns: an empty list
GetAvailableDatesNoHost ==
    /\ call.op = "none"
    /\ HostBySlug("nobody") = "null"
    /\ call' = [NoCall EXCEPT !.op = "getAvailableDates", !.outcome = "ok",
                              !.hostFound = FALSE]
    /\ UNCHANGED <<availability, bookings, declined, busy, hasAccount, planLimit, req, users, save>>

\* a stored booking, with or without a calendar event
StoredBooking(i, w, hasEvent) ==
    [id |-> i, host |-> HostId, startTime |-> w.start, endTime |-> w.end,
     googleEventId |-> IF hasEvent THEN i ELSE 0, meetLink |-> hasEvent,
     status |-> "confirmed"]

\* the stores of n bookings, with ids 1..n
StoresOf(n) ==
    {{StoredBooking(i, f[i][1], f[i][2]) : i \in 1..n} :
        f \in [1..n -> Windows(Instants) \X BOOLEAN]}

\* the calendars of at most n busy intervals
BusyOf(n) == {{f[i] : i \in 1..n} : f \in [1..n -> Windows(Instants)]}

\* the shapes of the stores the queries run against: <<windows, bookings,
\* busy intervals>>.  Two windows (in any stored order, overlapping or not),
\* or one window with one booking or one busy interval
StoreShapes == {<<0, 0, 0>>, <<1, 0, 0>>, <<2, 0, 0>>, <<1, 1, 0>>, <<1, 0, 1>>}

QueryInit ==
    /\ \E shape \in StoreShapes :
           /\ availability \in [1..shape[1] -> Windows(Instants)]
           /\ bookings \in StoresOf(shape[2])
           /\ busy \in BusyOf(shape[3])
    /\ declined \in SUBSET {b.googleEventId : b \in {x \in bookings : x.googleEventId # 0}}
    /\ hasAccount \in BOOLEAN
    /\ planLimit = MaxPlanLimit
    /\ req = [p \in Procs |-> NoReq]
    /\ call = NoCall
    /\ users = <<>>
    /\ save = [p \in Savers |-> NoSave]

\* the answer is delivered and the request ends: a query keeps no state
QueryReturns ==
    /\ call.op # "none"
    /\ call' = NoCall
    /\ UNCHANGED <<availability, bookings, declined, busy, hasAccount, planLimit, req, users, save>>

\* the `date` of a slot query: its time of day is dropped by startOfDay and
\* endOfDay, so the days' first instants stand for all of them
DayStarts == {t \in Instants : startOfDay(t) = t}

\* ------------------------------------------- the same query asked twice
\* the orders in which a fetch can return a set of documents: the query
\* states none
FetchOrders(S) ==
    {s \in [1..Cardinality(S) -> S] : \A x \in S : \E i \in 1..Cardinality(S) : s[i] = x}

\* a slip: find instead of filter, only the first fetched booking is kept
ActiveBookingsFirstOnly(existingBookings, declinedBookingIds) ==
    IF existingBookings # <<>> /\ Head(existingBookings).id \notin declinedBookingIds
    THEN {Head(existingBookings)}
    ELSE {}

\* activeBookings: the fetched bookings that are not declined
ActiveBookings(existingBookings, declinedBookingIds) ==
    {existingBookings[i] : i \in {j \in DOMAIN existingBookings :
                                    existingBookings[j].id \notin declinedBookingIds}}

\* getAvailableSlots on the bookings as fetched, in the order of the fetch
getAvailableSlotsFetched(avail, existingBookings, declinedIds, busyTimes, date, d) ==
    LET dayStart == startOfDay(date)
        dayEnd == endOfDay(date)
        availabilityForDate == AvailabilityForDate(avail, dayStart, dayEnd)
    IN  IF availabilityForDate = <<>>
        THEN <<>>
        ELSE AvailableSlots(availabilityForDate,
                            ActiveBookings(existingBookings, declinedIds),
                            busyTimes, dayStart, dayEnd, d)

\* the attendee lookups a call makes: one per fetched booking with an event
LookedUp(date) ==
    IF hasAccount /\ AvailabilityForDate(availability, startOfDay(date), endOfDay(date)) # <<>>
    THEN {b.id : b \in {x \in BookingsInRange(bookings, HostId, startOfDay(date),
                                              endOfDay(date)) : x.googleEventId # 0}}
    ELSE {}

\* the answer of getAvailableSlots when the fetch returns the bookings in
\* `order` and the lookups of the bookings in `failed` throw
FetchedAnswer(date, d, failed, order) ==
    getAvailableSlotsFetched(availability, order,
        DayDeclinedIds(hasAccount, Range(order), failed, declined),
        BusyInRange(hasAccount, busy, startOfDay(date), endOfDay(date)), date, d)

\* getAvailableSlots(hostSlug, date, d), the first of two calls
GetAvailableSlotsFirst(date, d, now, failed, order) ==
    /\ call.op = "none"
    /\ failed \subseteq LookedUp(date)
    /\ order \in FetchOrders(BookingsInRange(bookings, HostId, startOfDay(date),
                                             endOfDay(date)))
    /\ call' = [NoCall EXCEPT
                  !.op = "getAvailableSlots", !.date = date, !.duration = d, !.now = now,
                  !.outcome = "ok", !.calls = 1, !.failed = failed,
                  !.slots = FetchedAnswer(date, d, failed, order)]
    /\ UNCHANGED <<availability, bookings, declined, busy, hasAccount, planLimit, req, users,
                   save>>

\* the same call again: same host, date and duration, at the same instant,
\* the store unchanged and the calendar answering as before; the fetch may
\* return the bookings in another order
GetAvailableSlotsAgain(order) ==
    /\ call.op = "getAvailableSlots" /\ call.calls = 1
    /\ order \in FetchOrders(BookingsInRange(bookings, HostId, startOfDay(call.date),
                                             endOfDay(call.date)))
    /\ call' = [call EXCEPT
                  !.calls = 2,
                  !.again = FetchedAnswer(call.date, call.duration, call.failed, order)]
    /\ UNCHANGED <<availability, bookings, declined, busy, hasAccount, planLimit, req, users,
                   save>>

\* the stores the two calls run against: one window and two bookings, with
\* or without events, declined or not
TwiceInit ==
    /\ availability \in [1..1 -> Windows(ReqTimes)]
    /\ bookings \in {{StoredBooking(1, v, e), StoredBooking(2, w, f)} :
                       v \in Windows(ReqTimes), w \in Windows(ReqTimes),
                       e \in BOOLEAN, f \in BOOLEAN}
    /\ busy = {}
    /\ declined \in SUBSET {b.googleEventId : b \in {x \in bookings : x.googleEventId # 0}}
    /\ hasAccount \in BOOLEAN
    /\ planLimit = MaxPlanLimit
    /\ req = [p \in Procs |-> NoReq]
    /\ call = NoCall
    /\ users = <<>>
    /\ save = [p \in Savers |-> NoSave]

TwiceNext ==
    \/ \E date \in DayStarts, d \in Durations, now \in DayStarts,
          failed \in SUBSET {b.id : b \in bookings},
          order \in UNION {FetchOrders(S) : S \in SUBSET bookings} :
           GetAvailableSlotsFirst(date, d, now, failed, order)
    \/ \E order \in UNION {FetchOrders(S) : S \in SUBSET bookings} :
           GetAvailableSlotsAgain(order)
    \/ QueryReturns

SpecTwice == TwiceInit /\ [][TwiceNext]_vars

QueryNext ==
    \/ GetAvailableSlotsNoHost
    \/ \E date \in DayStarts, d \in Durations, now \in Instants,
          failed \in SUBSET {b.id : b \in bookings} :
           GetAvailableSlots(date, d, now, failed)
    \/ \E date \in DayStarts, d \in Durations, now \in Instants :
           GetAvailableSlotsBusyThrows(date, d, now)
    \/ \E date \in DayStarts, d \in Durations, now \in Instants :
           ComputeAvailableSlots(date, d, now)
    \/ QueryReturns

SpecQuery == QueryInit /\ [][QueryNext]_vars

\* the bounds of a date range: the first two instants of each day.  The
\* current instant is read through startOfDay only, so the days' first
\* instants stand for all of them
DateInputs == {t \in Instants : t % DayLen <= 1}

DatesNext ==
    \/ \E startDate \in DateInputs, endDate \in DateInputs, d \in Durations,
          now \in DayStarts, busyThrows \in BOOLEAN :
           GetAvailableDates(startDate, endDate, d, now, busyThrows)
    \/ GetAvailableDatesNoHost
    \/ QueryReturns

SpecDates == QueryInit /\ [][DatesNext]_vars

\* computeAvailableDates on the host's availability, bookings and busy times,
\* the arguments computeAvailableSlots is given
ComputeAvailableDates(startDate, endDate, d, now) ==
    /\ call.op = "none"
    /\ call' = [NoCall EXCEPT
                  !.op = "computeAvailableDates", !.date = startDate, !.endDate = endDate,
                  !.duration = d, !.now = now, !.outcome = "ok",
                  !.dates = computeAvailableDates(availability, HostBookings, startDate,
                                endDate, d, IF hasAccount THEN busy ELSE {}, now)]
    /\ UNCHANGED <<availability, bookings, declined, busy, hasAccount, planLimit, req, users, save>>

ProbeNext ==
    \/ \E startDate \in DayStarts, endDate \in DayStarts, d \in Durations, now \in Instants :
           ComputeAvailableDates(startDate, endDate, d, now)
    \/ QueryReturns

SpecProbe == QueryInit /\ [][ProbeNext]_vars

\* --------------------------------------- the queries on one small store
\* step 4 of createBooking on the store as it stands: checkSlotAvailable for
\* the window, and "This time slot is no longer available" when it answers
\* false.  `failed` holds the bookings whose attendee lookup threw
CheckSlot(startTime, endTime, failed) ==
    /\ call.op = "none"
    /\ LET existingBookings == BookingsInRange(bookings, HostId, startTime, endTime)
           lookups == IF hasAccount THEN SlotLookups(existingBookings, startTime, endTime)
                      ELSE {}
           isAvailable == checkSlotAvailable(bookings, HostId, hasAccount, declined, failed,
                                             startTime, endTime)
       IN call' = [NoCall EXCEPT
                     !.op = "checkSlotAvailable", !.date = startTime, !.endDate = endTime,
                     !.failed = {b.id : b \in {x \in lookups : x.id \in failed}},
                     !.outcome = IF isAvailable THEN "ok" ELSE "SlotUnavailable"]
    /\ UNCHANGED <<availability, bookings, declined, busy, hasAccount, planLimit, req, users, save>>

\* the stores of n bookings, inside the instants of a request
SmallStores(n) ==
    {{StoredBooking(i, f[i][1], f[i][2]) : i \in 1..n} :
        f \in [1..n -> Windows(ReqTimes) \X BOOLEAN]}

\* one window, with two bookings, or with at most one booking and at most
\* one busy interval
LookupInit ==
    /\ availability \in [1..1 -> Windows(ReqTimes)]
    /\ \/ bookings \in SmallStores(2) /\ busy = {}
       \/ /\ bookings \in SmallStores(0) \cup SmallStores(1)
          /\ busy \in {{}} \cup {{x} : x \in Windows(ReqTimes)}
    /\ declined \in SUBSET {b.googleEventId : b \in {x \in bookings : x.googleEventId # 0}}
    /\ hasAccount \in BOOLEAN
    /\ planLimit = MaxPlanLimit
    /\ req = [p \in Procs |-> NoReq]
    /\ call = NoCall
    /\ users = <<>>
    /\ save = [p \in Savers |-> NoSave]

LookupNext ==
    \/ \E date \in DayStarts, d \in Durations, failed \in SUBSET {b.id : b \in bookings} :
           GetAvailableSlots(date, d, 0, failed)
    \/ \E date \in DayStarts, d \in Durations : ComputeAvailableSlots(date, d, 0)
    \/ \E startDate \in DayStarts, endDate \in DayStarts, d \in Durations :
           ComputeAvailableDates(startDate, endDate, d, 0)
    \/ \E w \in Windows(ReqTimes), failed \in SUBSET {b.id : b \in bookings} :
           CheckSlot(w.start, w.end, failed)
    \/ QueryReturns

SpecLookup == LookupInit /\ [][LookupNext]_vars

\* ------------------------------------------------- the commit protocol
Overlaps(aStart, aEnd, bStart, bEnd) == aStart < bEnd /\ aEnd > bStart

BookingOf(p) == {b \in bookings : b.id = p}

\* C1: no two persisted bookings of one host with status confirmed have
\* overlapping [start, end) intervals, under any interleaving of createBooking
C1_NoOverlap ==
    \A a \in bookings : \A b \in bookings :
        (a.id # b.id /\ a.host = b.host /\ a.status = "confirmed" /\ b.status = "confirmed")
            => ~Overlaps(a.startTime, a.endTime, b.startTime, b.endTime)

\* C2: a createBooking whose re-validation read finds in the store a booking
\* of the host that overlaps the requested window and whose guest has not
\* declined ends with SlotUnavailable and persists nothing; a booking that
\* blocked the window when the request was issued still blocks it at the
\* read unless a guest declined in between
C2_BlockedIsRejected ==
    \A p \in Procs :
        /\ req[p].blockedAtRead =>
               /\ req[p].pc = "done"
               /\ req[p].outcome = "SlotUnavailable"
               /\ BookingOf(p) = {}
        /\ (req[p].blockedAtIssue /\ req[p].pc \in {"event", "persist"} \cup {"done"}
              /\ req[p].outcome # "QuotaExceeded" /\ ~req[p].blockedAtRead)
               => \E b \in bookings :
                     /\ Overlaps(req[p].startTime, req[p].endTime, b.startTime, b.endTime)
                     /\ b.googleEventId \in declined

\* C2 happens: a request issued after an overlapping booking was persisted is
\* rejected with SlotUnavailable
C2_Witness ==
    \E p \in Procs :
        /\ req[p].blockedAtIssue /\ req[p].blockedAtRead
        /\ req[p].outcome = "SlotUnavailable"

\* C5: every persisted booking lies inside one of the host's availability
\* windows
C5_BookingInsideAvailability ==
    \A b \in bookings :
        \E i \in DOMAIN availability :
            availability[i].start <= b.startTime /\ b.endTime <= availability[i].end

\* C7: when the creation of the calendar event throws, createBooking does not
\* fail: it persists a confirmed booking without event id and without
\* meeting link, and returns
C7_EventFailureDoesNotAbort ==
    \A p \in Procs :
        req[p].eventThrew =>
            /\ req[p].outcome \in {"none", "ok"}
            /\ req[p].pc \in {"persist", "done"}
            /\ req[p].pc = "done" =>
                  /\ req[p].outcome = "ok"
                  /\ \E b \in BookingOf(p) :
                        /\ b.status = "confirmed"
                        /\ b.googleEventId = 0
                        /\ b.meetLink = FALSE
                        /\ b.startTime = req[p].startTime /\ b.endTime = req[p].endTime

\* C7 happens: a request whose event creation threw has returned
C7_Witness ==
    \E p \in Procs : req[p].eventThrew /\ req[p].pc = "done" /\ BookingOf(p) # {}

\* ------------------------------------------------------ the slot queries
SlotsAnswered(ops) == call.op \in ops /\ call.outcome = "ok"

Max(a, b) == IF a > b THEN a ELSE b
Min(a, b) == IF a < b THEN a ELSE b

\* the busy intervals the calendar reports for the host
ReportedBusy == IF hasAccount THEN busy ELSE {}

\* C3: getAvailableSlots returns no slot that starts before the current
\* instant of the call
C3_NoPastSlot ==
    SlotsAnswered({"getAvailableSlots"}) =>
        \A i \in DOMAIN call.slots : call.slots[i].start >= call.now

\* C4 as stated: a slot returned by getAvailableSlots overlaps no stored
\* booking of the host and no reported busy interval
C4_NoConflictWithAnyBooking ==
    SlotsAnswered({"getAvailableSlots"}) =>
        \A i \in DOMAIN call.slots :
            /\ \A b \in HostBookings :
                   ~Overlaps(call.slots[i].start, call.slots[i].end, b.startTime, b.endTime)
            /\ \A x \in ReportedBusy :
                   ~Overlaps(call.slots[i].start, call.slots[i].end, x.start, x.end)

\* C4 amended: a slot returned by getAvailableSlots overlaps no stored booking
\* of the host, except the bookings whose guest the calendar reported as
\* declined, and no reported busy interval
C4_NoConflictWithActiveBooking ==
    SlotsAnswered({"getAvailableSlots"}) =>
        \A i \in DOMAIN call.slots :
            /\ \A b \in HostBookings :
                   b.id \notin call.declinedIds =>
                       ~Overlaps(call.slots[i].start, call.slots[i].end,
                                 b.startTime, b.endTime)
            /\ \A x \in ReportedBusy :
                   ~Overlaps(call.slots[i].start, call.slots[i].end, x.start, x.end)

\* C4 happens: slots are returned on a day on which a booking that is not
\* declined took a candidate slot away
C4_Witness ==
    /\ SlotsAnswered({"getAvailableSlots"})
    /\ call.slots # <<>>
    /\ \E b \in HostBookings :
         /\ b.id \notin call.declinedIds
         /\ \E k \in Instants :
              /\ k >= startOfDay(call.date)
              /\ k + call.duration <= endOfDay(call.date)
              /\ \E j \in DOMAIN availability :
                   availability[j].start <= k /\ k + call.duration <= availability[j].end
              /\ Overlaps(k, k + call.duration, b.startTime, b.endTime)

\* C6: a failure of the busy-interval read aborts no availability query: the
\* query answers what it would answer with no busy interval
C6_BusyFailureDegrades ==
    call.busyThrew =>
        /\ call.outcome = "ok"
        /\ call.op = "getAvailableSlots" =>
              call.slots = getAvailableSlots(availability, bookings, HostId,
                               call.declinedIds, {}, call.date, call.duration)
        /\ call.op = "getAvailableDates" =>
              call.dates = computeAvailableDates(availability,
                               BookingsInRange(bookings, HostId, call.date, call.endDate),
                               call.date, call.endDate, call.duration, {}, call.now)

\* C8: every slot of the generator is exactly slotDurationMinutes long and
\* starts at the clamped start of one of the host's windows plus a
\* non-negative multiple of slotDurationMinutes, inside that clamped window
C8_SlotAlignment ==
    SlotsAnswered({"getAvailableSlots", "computeAvailableSlots"}) =>
        \A i \in DOMAIN call.slots :
            /\ call.slots[i].end - call.slots[i].start = call.duration
            /\ \E j \in DOMAIN availability :
                 LET clampedStart == Max(availability[j].start, startOfDay(call.date))
                     clampedEnd == Min(availability[j].end, endOfDay(call.date))
                 IN  /\ call.slots[i].start >= clampedStart
                     /\ call.slots[i].end <= clampedEnd
                     /\ (call.slots[i].start - clampedStart) % call.duration = 0

\* C8 happens: the second slot of a window that runs past the end of the day,
\* with a duration of more than one minute
C8_Witness ==
    /\ SlotsAnswered({"getAvailableSlots"})
    /\ call.duration > 1
    /\ Len(availability) = 1
    /\ availability[1].end > endOfDay(call.date)
    /\ \E i \in DOMAIN call.slots :
         call.slots[i].start
             = Max(availability[1].start, startOfDay(call.date)) + call.duration

\* C9: getAvailableSlots returns its slots in chronological order
C9_ChronologicalOrder ==
    SlotsAnswered({"getAvailableSlots"}) =>
        \A i \in DOMAIN call.slots : \A j \in DOMAIN call.slots :
            i < j => call.slots[i].start <= call.slots[j].start

\* C10: the slots returned for a date are pairwise non-overlapping, so none
\* is returned twice
C10_SlotsDisjoint ==
    SlotsAnswered({"getAvailableSlots", "computeAvailableSlots"}) =>
        \A i \in DOMAIN call.slots : \A j \in DOMAIN call.slots :
            i < j => ~Overlaps(call.slots[i].start, call.slots[i].end,
                               call.slots[j].start, call.slots[j].end)

\* ------------------------------------------- the commit protocol, continued
HardErrors == {"NotFound", "QuotaExceeded", "SlotUnavailable"}

\* C11: a createBooking that ends with NotFound, QuotaExceeded or
\* SlotUnavailable has persisted no booking and has created no calendar event
C11_ErrorLeavesNoTrace ==
    \A p \in Procs :
        req[p].outcome \in HardErrors =>
            /\ req[p].pc = "done"
            /\ BookingOf(p) = {}
            /\ req[p].googleEventId = 0
            /\ ~req[p].eventThrew

\* C11 happens: on a host with a calendar account, one request has persisted
\* its booking and another has ended with SlotUnavailable
C11_Witness ==
    /\ hasAccount
    /\ \E p \in Procs : \E q \in Procs :
         /\ req[p].outcome = "SlotUnavailable"
         /\ BookingOf(q) # {}

\* C12: a createBooking that reads the quota of a host whose monthly booking
\* count is at or over the plan limit ends with QuotaExceeded at that step,
\* writes nothing then and persists nothing afterwards, whatever its slot
C12_QuotaExceededRejects ==
    [][\A p \in Procs :
         /\ (/\ req[p].pc = "idle" /\ req'[p].pc # "idle"
             /\ HostBySlug(req'[p].hostSlug) # "null"
             /\ QuotaExceeded(bookings, HostBySlug(req'[p].hostSlug), planLimit))
                => /\ req'[p].pc = "done"
                   /\ req'[p].outcome = "QuotaExceeded"
                   /\ bookings' = bookings
         /\ req[p].outcome = "QuotaExceeded"
                => /\ req'[p] = req[p]
                   /\ {b \in bookings' : b.id = p} = {}]_vars

\* C12 happens: the host's bookings have reached the plan limit and a request
\* for a window that nothing blocked has ended with QuotaExceeded
C12_Witness ==
    \E p \in Procs :
        /\ req[p].outcome = "QuotaExceeded"
        /\ ~req[p].blockedAtIssue
        /\ req[p].startTime < req[p].endTime
        /\ Cardinality(HostBookings) >= planLimit

\* ------------------------------------------------------- saveAvailability

\* C13: a user document either was never patched, or holds exactly the set of
\* windows of the one saveAvailability call that patched it last: every
\* stored entry carries a key of that call, nothing saved earlier survives
C13_ReplacedWholesale ==
    \A i \in DOMAIN users :
        IF users[i].writer = 0
        THEN users[i].availability \in {<<>>, OldAvailability}
        ELSE /\ users[i].writer \in Savers
             /\ save[users[i].writer].outcome = "ok"
             /\ save[users[i].writer].user = i
             /\ Range(StoredWindows(users[i])) = Range(save[users[i].writer].blocks)
             /\ \A k \in DOMAIN users[i].availability :
                    users[i].availability[k]._key[1] = users[i].writer

\* C13 happens: two calls with different, non-empty sets have both completed
\* on a document that held an earlier window
C13_Witness ==
    /\ Len(users) = 1
    /\ \E p \in Savers : \E q \in Savers :
         /\ p # q
         /\ save[p].outcome = "ok" /\ save[q].outcome = "ok"
         /\ save[p].blocks # <<>> /\ save[q].blocks # <<>>
         /\ Range(save[p].blocks) # Range(save[q].blocks)
         /\ users[1].writer = q
         /\ \A k \in DOMAIN users[1].availability : users[1].availability[k]._key[1] = q

\* C14: the array a completed saveAvailability returns has one entry per
\* block, with the block's start and end and pairwise distinct keys; and a
\* read of the host's availability that follows the call yields the blocks'
\* instants in the same number and order
C14_RoundTrip ==
    \A p \in Savers :
        save[p].outcome = "ok" =>
            /\ Len(save[p].result) = Len(save[p].blocks)
            /\ \A i \in DOMAIN save[p].result :
                 /\ parseISO(save[p].result[i].start) = save[p].blocks[i].start
                 /\ parseISO(save[p].result[i].end) = save[p].blocks[i].end
                 /\ \A j \in DOMAIN save[p].result :
                        i # j => save[p].result[i].id # save[p].result[j].id
            /\ LET d == UserIdByClerkId(users, save[p].userId)
               IN  /\ d # 0
                   /\ users[d].writer = p => StoredWindows(users[d]) = save[p].blocks

\* C14 happens: a call with two blocks whose instants lie on different days
\* has completed and the host's document holds its patch
C14_Witness ==
    \E p \in Savers :
        /\ save[p].outcome = "ok"
        /\ Len(save[p].blocks) = 2
        /\ save[p].blocks[1] # save[p].blocks[2]
        /\ save[p].blocks[1].end % DayLen # 0
        /\ users[UserIdByClerkId(users, save[p].userId)].writer = p

\* C18: a saveAvailability without an authenticated identity ends with
\* Unauthorized at its first step, which writes nothing, and takes no step
\* after it: it creates no user document and changes no availability
C18_UnauthorizedWritesNothing ==
    [][\A p \in Savers :
         /\ (save[p].pc = "idle" /\ save'[p].pc # "idle" /\ save'[p].userId = "null")
                => /\ save'[p].pc = "done"
                   /\ save'[p].outcome = "Unauthorized"
                   /\ users' = users
         /\ save[p].outcome = "Unauthorized" => save'[p] = save[p]]_vars

\* C18 happens: a call without identity that submitted a block has ended with
\* Unauthorized and the document of the host still holds its earlier window
C18_Witness ==
    \E p \in Savers :
        /\ save[p].outcome = "Unauthorized"
        /\ save[p].blocks # <<>>
        /\ Len(users) = 1
        /\ users[1].availability = OldAvailability

C16_NoPastDate ==
    (call.op = "getAvailableDates" /\ call.outcome = "ok") =>
        \A i \in DOMAIN call.dates : call.dates[i] >= FormatDay(startOfDay(call.now))

\* C16 happens: the range starts on a day before today and a day is returned
C16_Witness ==
    /\ call.op = "getAvailableDates"
    /\ call.outcome = "ok"
    /\ FormatDay(call.date) < FormatDay(call.now)
    /\ call.dates # <<>>
    /\ \E w \in Range(availability) : w.start < startOfDay(call.now)

\* C17: an operation that resolves a host by slug and finds none ends with
\* NotFound
C17_MissingHostIsNotFound ==
    /\ ~call.hostFound => call.outcome = "NotFound"
    /\ \A p \in Procs :
         (req[p].pc # "idle" /\ HostBySlug(req[p].hostSlug) = "null")
             => req[p].outcome = "NotFound"

\* ------------------------------------------------ concurrent createBooking
\* C19: nothing stands between a passed re-validation and the persist: a
\* request that has passed it is never rejected afterwards, whatever the
\* other requests have persisted since its read, and ends with its booking
\* in the store
C19_PassedReadAlwaysPersists ==
    \A p \in Procs :
        req[p].revalidated =>
            /\ req[p].outcome \in {"none", "ok"}
            /\ req[p].pc \in {"event", "persist", "done"}
            /\ req[p].pc = "done" => BookingOf(p) # {}

\* C19 happens: two requests for overlapping windows of the host have both
\* passed the re-validation read, each reading before the other persisted
\* (neither was blocked at its read, and no guest declined), and both have
\* persisted a confirmed booking
C19_Witness ==
    \E p \in Procs : \E q \in Procs :
        /\ p # q
        /\ req[p].revalidated /\ req[q].revalidated
        /\ ~req[p].blockedAtRead /\ ~req[q].blockedAtRead
        /\ declined = {}
        /\ req[p].startTime < req[p].endTime /\ req[q].startTime < req[q].endTime
        /\ \E a \in BookingOf(p) : \E b \in BookingOf(q) :
             /\ a.host = b.host
             /\ a.status = "confirmed" /\ b.status = "confirmed"
             /\ Overlaps(a.startTime, a.endTime, b.startTime, b.endTime)

\* C20: when no two createBooking requests overlap in time, the bookings the
\* quota counts never exceed the plan limit
C20_SequentialQuotaHolds ==
    (\A p \in Procs : ~req[p].overlapped) => Cardinality(HostBookings) <= planLimit

\* C20 happens: two requests that overlapped in time have both passed the
\* quota check of a host one booking below the limit and both persisted,
\* leaving the count above the limit
C20_Witness ==
    /\ Cardinality(HostBookings) = planLimit + 1
    /\ \E p \in Procs : \E q \in Procs :
         /\ p # q
         /\ req[p].overlapped /\ req[q].overlapped
         /\ BookingOf(p) # {} /\ BookingOf(q) # {}

\* ------------------------------------------- the order of the commit steps
\* C30: within one createBooking the event is attempted only after a passed
\* re-validation, the persist follows the event attempt whatever its outcome,
\* a booking is stored only by that persist, every stored booking has status
\* confirmed, and it carries an event id exactly when the creation of the
\* event succeeded and returned one.  The position of a request tells which
\* steps it has taken: an event outcome is recorded only once the request is
\* past the event step, a booking only once it is past the persist.
C30_StepsInOrder ==
    \A p \in Procs :
        /\ req[p].pc \in {"event", "persist"} => req[p].revalidated
        /\ (req[p].googleEventId # 0 \/ req[p].eventThrew)
               => /\ req[p].pc \in {"persist", "done"}
                  /\ req[p].revalidated /\ hasAccount
                  /\ req[p].eventThrew <=> req[p].googleEventId = 0
        /\ BookingOf(p) # {} <=> (req[p].pc = "done" /\ req[p].outcome = "ok")
        /\ \A b \in BookingOf(p) :
              /\ req[p].revalidated
              /\ b.status = "confirmed"
              /\ b.startTime = req[p].startTime /\ b.endTime = req[p].endTime
              /\ b.googleEventId = req[p].googleEventId
              /\ b.googleEventId # 0 <=> (hasAccount /\ ~req[p].eventThrew)

\* C30 happens: one request has persisted a booking that carries the id of
\* the event it created, and another, whose event creation threw, has
\* persisted a booking without one
C30_Witness ==
    \E p \in Procs : \E q \in Procs :
        /\ p # q
        /\ req[p].pc = "done" /\ req[q].pc = "done"
        /\ req[p].revalidated /\ req[q].revalidated /\ req[q].eventThrew
        /\ \E b \in BookingOf(p) : b.googleEventId # 0 /\ b.status = "confirmed"
        /\ \E b \in BookingOf(q) : b.googleEventId = 0 /\ b.status = "confirmed"

\* ------------------------------------------------- the candidate generator
\* the slots the generator is to cut from one clamped window: as many as fit
ExpectedSlots(clampedStart, clampedEnd, d) ==
    [k \in 1..((clampedEnd - clampedStart) \div d) |->
        [start |-> clampedStart + (k - 1) * d, end |-> clampedStart + k * d]]

RECURSIVE ExpectedCandidates(_, _, _, _)
ExpectedCandidates(windows, dayStart, dayEnd, d) ==
    IF windows = <<>>
    THEN <<>>
    ELSE ExpectedSlots(Max(Head(windows).start, dayStart), Min(Head(windows).end, dayEnd), d)
           \o ExpectedCandidates(Tail(windows), dayStart, dayEnd, d)

\* C23: for each relevant window, in the stored order, the generator emits
\* exactly floor((clampedEnd - clampedStart) / slotDuration) candidates, the
\* first at the clamped start and each next where the previous ended, every
\* one ending at or before the clamped end
C23_CandidatesFillWindow ==
    SlotsAnswered({"getAvailableSlots", "computeAvailableSlots"}) =>
        call.candidates =
            ExpectedCandidates(AvailabilityForDate(availability, startOfDay(call.date),
                                                   endOfDay(call.date)),
                               startOfDay(call.date), endOfDay(call.date), call.duration)

\* C23 happens: a window is cut into candidates of more than one minute, the
\* first at its start, and the rest of it, shorter than a slot, is left over
C23_Witness ==
    /\ SlotsAnswered({"getAvailableSlots"})
    /\ Len(availability) = 1
    /\ call.duration > 1
    /\ call.candidates # <<>>
    /\ call.candidates[1].start = availability[1].start
    /\ call.candidates[Len(call.candidates)].end
           < Min(availability[1].end, endOfDay(call.date))

\* C24: getAvailableSlots returns the candidate sequence minus exactly the
\* candidates that overlap a booking that is not declined or a busy interval
C24_FilterRemovesOnlyConflicts ==
    SlotsAnswered({"getAvailableSlots"}) =>
        call.slots =
            SelectSeq(call.candidates,
                      LAMBDA slot :
                          /\ \A b \in HostBookings :
                                 b.id \notin call.declinedIds =>
                                     ~Overlaps(slot.start, slot.end, b.startTime, b.endTime)
                          /\ \A x \in ReportedBusy :
                                 ~Overlaps(slot.start, slot.end, x.start, x.end))

\* C24 happens: of several candidates one is removed because a busy interval
\* that starts inside it overlaps it, and another is returned
C24_Witness ==
    /\ SlotsAnswered({"getAvailableSlots"})
    /\ call.slots # <<>>
    /\ Len(call.slots) < Len(call.candidates)
    /\ \E i \in DOMAIN call.candidates : \E x \in ReportedBusy :
         /\ call.candidates[i].start < x.start
         /\ Overlaps(call.candidates[i].start, call.candidates[i].end, x.start, x.end)

\* --------------------------------------------------------- the date query
DatesAnswered == call.op = "getAvailableDates" /\ call.outcome = "ok" /\ call.hostFound

\* the first instant of calendar day k
DayStart(k) == k * DayLen

\* the candidate slots of calendar day k
DayCandidates(k, d) ==
    ExpectedCandidates(AvailabilityForDate(availability, DayStart(k), endOfDay(DayStart(k))),
                       DayStart(k), endOfDay(DayStart(k)), d)

\* what the last getAvailableDates was given: the bookings fetched for the
\* instant range, and the busy intervals, none when their fetch threw
FetchedBookings == BookingsInRange(bookings, HostId, call.date, call.endDate)
FetchedBusy ==
    IF call.busyThrew THEN {} ELSE BusyInRange(hasAccount, busy, call.date, call.endDate)

\* day k has a candidate slot that overlaps none of the bookings and none of
\* the busy intervals
DayHasFreeSlot(k, d, bookingSlots, busyTimes) ==
    \E i \in DOMAIN DayCandidates(k, d) :
        LET slot == DayCandidates(k, d)[i]
        IN  /\ \A b \in bookingSlots :
                   ~Overlaps(slot.start, slot.end, b.startTime, b.endTime)
            /\ \A x \in busyTimes : ~Overlaps(slot.start, slot.end, x.start, x.end)

\* C27: every day returned by getAvailableDates has a candidate slot on that
\* day that overlaps no stored booking of the host
C27_ReturnedDayFreeOfStoredBookings ==
    DatesAnswered =>
        \A i \in DOMAIN call.dates :
            DayHasFreeSlot(call.dates[i], call.duration, HostBookings, {})

\* C28: getAvailableDates returns its days in strictly increasing order, and
\* they are exactly the days from the day of startDate to the day of endDate,
\* both included, that are not before today and on which the probe finds a
\* free slot
C28_DatesOrderedAndInclusive ==
    DatesAnswered =>
        /\ \A i \in DOMAIN call.dates : \A j \in DOMAIN call.dates :
               i < j => call.dates[i] < call.dates[j]
        /\ Range(call.dates) =
               {k \in FormatDay(call.date)..FormatDay(call.endDate) :
                   /\ k >= FormatDay(call.now)
                   /\ DayHasFreeSlot(k, call.duration, FetchedBookings, FetchedBusy)}

\* C28 happens: the range starts in the middle of one day and ends in the
\* middle of the next, and both days are returned, in order
C28_Witness ==
    /\ DatesAnswered
    /\ call.date # startOfDay(call.date)
    /\ call.endDate # startOfDay(call.endDate)
    /\ call.dates = <<FormatDay(call.date), FormatDay(call.date) + 1>>
    /\ FormatDay(call.endDate) = FormatDay(call.date) + 1

\* C26: for the same availability, bookings, busy intervals, duration and
\* current instant, a day of the range at or after today is returned by
\* computeAvailableDates exactly when computeAvailableSlots returns a slot
\* for that day
C26_ProbeAgreesWithEnumerate ==
    (call.op = "computeAvailableDates" /\ call.outcome = "ok") =>
        \A k \in FormatDay(call.date)..FormatDay(call.endDate) :
            k >= FormatDay(call.now) =>
                (k \in Range(call.dates)
                    <=> computeAvailableSlots(availability, HostBookings, DayStart(k),
                                              call.duration, ReportedBusy, call.now) # <<>>)

\* ------------------------------------------------- the attendee lookups
\* the window a checkSlotAvailable call was asked about
CheckAnswered == call.op = "checkSlotAvailable"

\* the bookings whose lookup threw in the last call
LookupThrew(b) == b.id \in call.failed

\* the bookings the calendar reported as declined in the last call: the host
\* has a default account with credentials, the booking carries an event id,
\* its lookup answered, and the guest's status is declined
ReportedDeclined(b) ==
    /\ hasAccount
    /\ b.googleEventId # 0
    /\ b.googleEventId \in declined
    /\ b.id \notin call.failed

\* the answers of the last call had every lookup answered
SlotsWithoutFailure ==
    getAvailableSlots(availability, bookings, HostId,
        DayDeclinedIds(hasAccount,
            BookingsInRange(bookings, HostId, startOfDay(call.date), endOfDay(call.date)),
            {}, declined),
        BusyInRange(hasAccount, busy, startOfDay(call.date), endOfDay(call.date)),
        call.date, call.duration)

FreeWithoutFailure ==
    checkSlotAvailable(bookings, HostId, hasAccount, declined, {}, call.date, call.endDate)

\* C21: a booking whose attendee lookup threw still blocks: getAvailableSlots
\* offers no slot overlapping it and the re-validation of createBooking
\* rejects a window overlapping it; and a lookup that throws never makes
\* available what is not available when every lookup answers
C21_FailedLookupStillBlocks ==
    /\ SlotsAnswered({"getAvailableSlots"}) =>
          /\ \A b \in HostBookings :
                 LookupThrew(b) =>
                     \A i \in DOMAIN call.slots :
                         ~Overlaps(call.slots[i].start, call.slots[i].end,
                                   b.startTime, b.endTime)
          /\ Range(call.slots) \subseteq Range(SlotsWithoutFailure)
    /\ CheckAnswered =>
          /\ (\E b \in HostBookings :
                  /\ LookupThrew(b)
                  /\ Overlaps(call.date, call.endDate, b.startTime, b.endTime))
                 => call.outcome = "SlotUnavailable"
          /\ call.outcome = "ok" => FreeWithoutFailure

\* C21 happens: the guest of a booking has declined, the lookup of that
\* booking threw, and getAvailableSlots returns slots but none of the
\* candidates the booking overlaps
C21_Witness ==
    /\ SlotsAnswered({"getAvailableSlots"})
    /\ call.slots # <<>>
    /\ \E b \in HostBookings :
         /\ LookupThrew(b)
         /\ b.googleEventId \in declined
         /\ \E i \in DOMAIN call.candidates :
              Overlaps(call.candidates[i].start, call.candidates[i].end,
                       b.startTime, b.endTime)

\* C22: a booking reported as declined does not block and every other
\* booking does: getAvailableSlots returns exactly the candidates that
\* overlap no busy interval and no booking other than those reported
\* declined, and the re-validation accepts a window exactly when every
\* booking overlapping it is reported declined
C22_DeclinedDoesNotBlock ==
    /\ SlotsAnswered({"getAvailableSlots"}) =>
          call.slots =
              SelectSeq(call.candidates,
                        LAMBDA slot :
                            /\ \A b \in HostBookings :
                                   Overlaps(slot.start, slot.end, b.startTime, b.endTime)
                                       => ReportedDeclined(b)
                            /\ \A x \in ReportedBusy :
                                   ~Overlaps(slot.start, slot.end, x.start, x.end))
    /\ CheckAnswered =>
          (call.outcome = "ok"
             <=> \A b \in HostBookings :
                     Overlaps(call.date, call.endDate, b.startTime, b.endTime)
                         => ReportedDeclined(b))

\* C22 happens: the re-validation accepts a window that overlaps a booking
\* whose guest has declined, in a store that holds another booking whose
\* guest has not
C22_Witness ==
    /\ CheckAnswered
    /\ call.outcome = "ok"
    /\ \E b \in HostBookings :
         /\ ReportedDeclined(b)
         /\ Overlaps(call.date, call.endDate, b.startTime, b.endTime)
    /\ \E b \in HostBookings : b.googleEventId # 0 /\ ~ReportedDeclined(b)

\* ------------------------------------------------------ half-open overlap
\* two intervals that at most touch: one ends at or before the other starts
Apart(aStart, aEnd, bStart, bEnd) == aEnd <= bStart \/ aStart >= bEnd

\* C25: overlap is half-open in the slot filter, in the day probe and in the
\* re-validation: a candidate is returned, a day is returned and a window is
\* accepted exactly when it at most touches every blocking booking and every
\* busy interval
C25_TouchingDoesNotConflict ==
    /\ SlotsAnswered({"computeAvailableSlots"}) =>
          call.slots =
              SelectSeq(call.candidates,
                        LAMBDA slot :
                            /\ slot.start >= call.now
                            /\ \A b \in HostBookings :
                                   Apart(slot.start, slot.end, b.startTime, b.endTime)
                            /\ \A x \in ReportedBusy :
                                   Apart(slot.start, slot.end, x.start, x.end))
    /\ (call.op = "computeAvailableDates" /\ call.outcome = "ok") =>
          \A k \in FormatDay(call.date)..FormatDay(call.endDate) :
              k >= FormatDay(call.now) =>
                  (k \in Range(call.dates)
                      <=> \E i \in DOMAIN DayCandidates(k, call.duration) :
                            LET slot == DayCandidates(k, call.duration)[i]
                            IN  /\ \A b \in HostBookings :
                                       Apart(slot.start, slot.end, b.startTime, b.endTime)
                                /\ \A x \in ReportedBusy :
                                       Apart(slot.start, slot.end, x.start, x.end))
    /\ CheckAnswered =>
          (call.outcome = "ok"
             <=> \A b \in HostBookings :
                     ReportedDeclined(b)
                         \/ Apart(call.date, call.endDate, b.startTime, b.endTime))

\* C25 happens: the re-validation accepts a window that starts at the instant
\* at which a booking that is not declined ends
C25_Witness ==
    /\ CheckAnswered
    /\ call.outcome = "ok"
    /\ \E b \in HostBookings :
         /\ ~ReportedDeclined(b)
         /\ b.endTime = call.date

\* ======================================================================
\* The loops, one iteration at a time
\* ======================================================================
\* the day whose windows the slot loop is cutting
LoopDay == IF call.op = "computeAvailableDates" THEN call.currentDate ELSE call.date

\* availabilityForDate of that day, and the clamped end of the window the
\* loop is in
LoopWindows == AvailabilityForDate(availability, startOfDay(LoopDay), endOfDay(LoopDay))
LoopSlotEnd == ClampEnd(LoopWindows[call.window], endOfDay(LoopDay))

\* the clamped start of window i of a day, where the while loop begins
LoopSlotStart(day, i) ==
    LET ws == AvailabilityForDate(availability, startOfDay(day), endOfDay(day))
    IN  IF i \in DOMAIN ws THEN ClampStart(ws[i], startOfDay(day)) ELSE 0

\* getAvailableSlots up to its for loop; without a relevant window it returns
LoopGetAvailableSlots(date, d) ==
    /\ call.op = "none"
    /\ call' =
         IF AvailabilityForDate(availability, startOfDay(date), endOfDay(date)) = <<>>
         THEN [NoCall EXCEPT !.op = "getAvailableSlots", !.date = date, !.duration = d,
                             !.outcome = "ok", !.pc = "done"]
         ELSE [NoCall EXCEPT !.op = "getAvailableSlots", !.date = date, !.duration = d,
                             !.pc = "slots", !.window = 1,
                             !.currentStart = LoopSlotStart(date, 1)]
    /\ UNCHANGED <<availability, bookings, declined, busy, hasAccount, planLimit, req, users, save>>

\* computeAvailableSlots up to its for loop
LoopComputeAvailableSlots(date, d, now) ==
    /\ call.op = "none"
    /\ call' = [NoCall EXCEPT !.op = "computeAvailableSlots", !.date = date,
                              !.duration = d, !.now = now, !.pc = "slots", !.window = 1,
                              !.currentStart = LoopSlotStart(date, 1)]
    /\ UNCHANGED <<availability, bookings, declined, busy, hasAccount, planLimit, req, users, save>>

\* computeAvailableDates up to its while loop
LoopComputeAvailableDates(startDate, endDate, d, now) ==
    /\ call.op = "none"
    /\ call' = [NoCall EXCEPT !.op = "computeAvailableDates", !.date = startDate,
                              !.endDate = endDate, !.duration = d, !.now = now,
                              !.pc = "days", !.currentDate = startOfDay(startDate)]
    /\ UNCHANGED <<availability, bookings, declined, busy, hasAccount, planLimit, req, users, save>>

\* a slip: the branch that skips a past slot continues without advancing
WhileSlotContinueStuck ==
    /\ call.pc = "slots"
    /\ call.window <= Len(LoopWindows)
    /\ addMinutes(call.currentStart, call.duration) <= LoopSlotEnd
    /\ LET currentStart == call.currentStart
           currentEnd == addMinutes(call.currentStart, call.duration)
           slot == [start |-> currentStart, end |-> currentEnd]
           free == /\ ~HasBookingConflict(currentStart, currentEnd, HostBookings)
                   /\ ~HasBusyConflict(currentStart, currentEnd, ReportedBusy)
       IN call' =
            IF call.op = "getAvailableSlots"
            THEN [call EXCEPT !.candidates = Append(@, slot), !.currentStart = currentEnd]
            ELSE IF call.op = "computeAvailableSlots"
            THEN IF currentStart < call.now
                 THEN call
                 ELSE IF free
                 THEN [call EXCEPT !.slots = Append(@, slot), !.currentStart = currentEnd]
                 ELSE [call EXCEPT !.currentStart = currentEnd]
            ELSE IF free
                 THEN [call EXCEPT !.dates = Append(@, FormatDay(call.currentDate)),
                                   !.currentDate = addDays(@, 1), !.pc = "days",
                                   !.window = 0, !.currentStart = 0]
                 ELSE [call EXCEPT !.currentStart = currentEnd]
    /\ UNCHANGED <<availability, bookings, declined, busy, hasAccount, planLimit, req, users, save>>

\* one iteration of the while loop over the slots of a window: of
\* getAvailableSlots (push), of computeAvailableSlots (skip a past slot, push
\* a free one) or of checkDayHasAvailableSlot (return true on a free one:
\* the day is pushed and the day loop goes on)
WhileSlot ==
    /\ call.pc = "slots"
    /\ call.window <= Len(LoopWindows)
    /\ addMinutes(call.currentStart, call.duration) <= LoopSlotEnd
    /\ LET currentStart == call.currentStart
           currentEnd == addMinutes(call.currentStart, call.duration)
           slot == [start |-> currentStart, end |-> currentEnd]
           free == /\ ~HasBookingConflict(currentStart, currentEnd, HostBookings)
                   /\ ~HasBusyConflict(currentStart, currentEnd, ReportedBusy)
       IN call' =
            IF call.op = "getAvailableSlots"
            THEN [call EXCEPT !.candidates = Append(@, slot), !.currentStart = currentEnd]
            ELSE IF call.op = "computeAvailableSlots"
            THEN IF currentStart < call.now
                 THEN [call EXCEPT !.currentStart = currentEnd]
                 ELSE IF free
                 THEN [call EXCEPT !.slots = Append(@, slot), !.currentStart = currentEnd]
                 ELSE [call EXCEPT !.currentStart = currentEnd]
            ELSE IF free
                 THEN [call EXCEPT !.dates = Append(@, FormatDay(call.currentDate)),
                                   !.currentDate = addDays(@, 1), !.pc = "days",
                                   !.window = 0, !.currentStart = 0]
                 ELSE [call EXCEPT !.currentStart = currentEnd]
    /\ UNCHANGED <<availability, bookings, declined, busy, hasAccount, planLimit, req, users, save>>

\* the while condition fails: the for loop takes the next window
NextWindow ==
    /\ call.pc = "slots"
    /\ call.window <= Len(LoopWindows)
    /\ ~(addMinutes(call.currentStart, call.duration) <= LoopSlotEnd)
    /\ call' = [call EXCEPT !.window = @ + 1,
                            !.currentStart = LoopSlotStart(LoopDay, call.window + 1)]
    /\ UNCHANGED <<availability, bookings, declined, busy, hasAccount, planLimit, req, users, save>>

\* the for loop is over: getAvailableSlots filters and returns,
\* computeAvailableSlots returns, checkDayHasAvailableSlot returns false and
\* the day loop goes on
SlotsDone ==
    /\ call.pc = "slots"
    /\ call.window > Len(LoopWindows)
    /\ call' =
         IF call.op = "getAvailableSlots"
         THEN [call EXCEPT
                 !.pc = "done", !.outcome = "ok",
                 !.slots = SelectSeq(call.candidates,
                               LAMBDA slot :
                                   /\ ~HasBookingConflict(slot.start, slot.end, HostBookings)
                                   /\ ~HasBusyConflict(slot.start, slot.end, ReportedBusy))]
         ELSE IF call.op = "computeAvailableSlots"
         THEN [call EXCEPT !.pc = "done", !.outcome = "ok"]
         ELSE [call EXCEPT !.currentDate = addDays(@, 1), !.pc = "days", !.window = 0,
                           !.currentStart = 0]
    /\ UNCHANGED <<availability, bookings, declined, busy, hasAccount, planLimit, req, users, save>>

\* one iteration of the while loop of computeAvailableDates, up to the probe
WhileDay ==
    /\ call.pc = "days"
    /\ call.currentDate <= call.endDate
    /\ call' =
         IF call.currentDate < startOfDay(call.now)
         THEN [call EXCEPT !.currentDate = addDays(@, 1)]
         ELSE IF LoopWindows # <<>>
         THEN [call EXCEPT !.pc = "slots", !.window = 1,
                           !.currentStart = LoopSlotStart(call.currentDate, 1)]
         ELSE [call EXCEPT !.currentDate = addDays(@, 1)]
    /\ UNCHANGED <<availability, bookings, declined, busy, hasAccount, planLimit, req, users, save>>

\* the while condition of computeAvailableDates fails: it returns
DaysDone ==
    /\ call.pc = "days"
    /\ call.currentDate > call.endDate
    /\ call' = [call EXCEPT !.pc = "done", !.outcome = "ok"]
    /\ UNCHANGED <<availability, bookings, declined, busy, hasAccount, planLimit, req, users, save>>

\* the result is delivered
LoopReturns ==
    /\ call.pc = "done"
    /\ call' = NoCall
    /\ UNCHANGED <<availability, bookings, declined, busy, hasAccount, planLimit, req, users, save>>

\* at most two windows between the first instants of the days, and at most
\* one booking
LoopInit ==
    /\ \E n \in 0..2 : availability \in [1..n -> Windows(DateInputs)]
    /\ bookings \in SmallStores(0) \cup SmallStores(1)
    /\ busy = {}
    /\ declined = {}
    /\ hasAccount = FALSE
    /\ planLimit = MaxPlanLimit
    /\ req = [p \in Procs |-> NoReq]
    /\ call = NoCall
    /\ users = <<>>
    /\ save = [p \in Savers |-> NoSave]

LoopStep == WhileSlot \/ NextWindow \/ SlotsDone \/ WhileDay \/ DaysDone

LoopNext ==
    \/ \E date \in DayStarts, d \in Durations : LoopGetAvailableSlots(date, d)
    \/ \E date \in DayStarts, d \in Durations, now \in ReqTimes :
           LoopComputeAvailableSlots(date, d, now)
    \/ \E startDate \in DayStarts, endDate \in DateInputs, d \in Durations,
          now \in DayStarts :
           LoopComputeAvailableDates(startDate, endDate, d, now)
    \/ WhileSlot
    \/ NextWindow
    \/ SlotsDone
    \/ WhileDay
    \/ DaysDone
    \/ LoopReturns

\* the loops are synchronous code: an iteration that can run does run
SpecLoop == LoopInit /\ [][LoopNext]_vars /\ WF_vars(LoopStep)

\* C29: for every positive slot duration, every stored set of windows and
\* every date range, each loop of getAvailableSlots, computeAvailableSlots,
\* checkDayHasAvailableSlot and computeAvailableDates that has started
\* finishes, and the function returns
C29_LoopsTerminate == (call.pc \in {"slots", "days"}) ~> (call.pc = "done")

\* C29 happens: computeAvailableDates has returned after its day loop went
\* over two days of a host with two windows and the probe's loop ran on both
C29_Witness ==
    /\ call.op = "computeAvailableDates"
    /\ call.pc = "done"
    /\ Len(call.dates) = 2
    /\ Len(availability) = 2

\* ======================================================================
\* Well-formed bookings
\* ======================================================================

\* C31: every booking stored by createBooking has startTime strictly before
\* endTime: a request with an empty or inverted interval stores nothing
C31_StoredBookingStartBeforeEnd ==
    \A b \in bookings : b.startTime < b.endTime

\* ======================================================================
\* The attendee lookups as a fan-out: one callback per booking, joined by
\* Promise.all
\* ======================================================================

\* the bookings whose attendee status a call looks up
FanLookups ==
    IF call.op = "checkSlotAvailable"
    THEN IF hasAccount
         THEN SlotLookups(BookingsInRange(bookings, HostId, call.date, call.endDate),
                          call.date, call.endDate)
         ELSE {}
    ELSE {b \in bookings : b.id \in LookedUp(call.date)}

\* getAvailableSlots up to the map that starts the lookups (the day has
\* availability, so the function has not returned early)
FanOutSlots(date, d) ==
    /\ call.op = "none"
    /\ AvailabilityForDate(availability, startOfDay(date), endOfDay(date)) # <<>>
    /\ call' = [NoCall EXCEPT !.op = "getAvailableSlots", !.date = date, !.duration = d,
                              !.pc = "lookups", !.pending = LookedUp(date)]
    /\ UNCHANGED <<availability, bookings, declined, busy, hasAccount, planLimit, req, users, save>>

\* checkSlotAvailable up to the map that starts the lookups
FanOutCheck(startTime, endTime) ==
    /\ call.op = "none"
    /\ call' = [NoCall EXCEPT
                  !.op = "checkSlotAvailable", !.date = startTime, !.endDate = endTime,
                  !.pc = "lookups",
                  !.pending =
                      IF hasAccount
                      THEN {b.id : b \in SlotLookups(BookingsInRange(bookings, HostId,
                                                         startTime, endTime),
                                                     startTime, endTime)}
                      ELSE {}]
    /\ UNCHANGED <<availability, bookings, declined, busy, hasAccount, planLimit, req, users, save>>

\* one callback resumes with the status of its booking's guest and adds the
\* booking to declinedBookingIds when the status is "declined"
LookupAnswers(id) ==
    /\ call.pc = "lookups"
    /\ id \in call.pending
    /\ LET isDeclined == \E b \in bookings : b.id = id /\ b.googleEventId \in declined
       IN call' = [call EXCEPT
                     !.pending = @ \ {id},
                     !.completed = Append(@, id),
                     !.declinedIds = IF isDeclined THEN @ \cup {id} ELSE @]
    /\ UNCHANGED <<availability, bookings, declined, busy, hasAccount, planLimit, req, users, save>>

\* one callback's getEventAttendeeStatus throws: its catch swallows the
\* error and the callback ends having added nothing
LookupThrows(id) ==
    /\ call.pc = "lookups"
    /\ id \in call.pending
    /\ call' = [call EXCEPT !.pending = @ \ {id}, !.completed = Append(@, id),
                            !.failed = @ \cup {id}]
    /\ UNCHANGED <<availability, bookings, declined, busy, hasAccount, planLimit, req, users, save>>

\* the rest of the function, run on the declinedBookingIds gathered so far
FanResult ==
    IF call.op = "checkSlotAvailable"
    THEN [call EXCEPT
            !.pc = "joined",
            !.outcome =
                IF SlotFree(BookingsInRange(bookings, HostId, call.date, call.endDate),
                            call.declinedIds, call.date, call.endDate)
                THEN "ok" ELSE "SlotUnavailable"]
    ELSE [call EXCEPT
            !.pc = "joined", !.outcome = "ok",
            !.slots = getAvailableSlots(availability, bookings, HostId, call.declinedIds,
                          BusyInRange(hasAccount, busy, startOfDay(call.date),
                                      endOfDay(call.date)),
                          call.date, call.duration)]

\* a slip: the promise of the lookups is not awaited, the function goes on
\* while callbacks are still pending
JoinLookupsNotAwaited ==
    /\ call.pc = "lookups"
    /\ call' = FanResult
    /\ UNCHANGED <<availability, bookings, declined, busy, hasAccount, planLimit, req, users, save>>

\* await Promise.all(...) resolves once every callback has ended (none
\* rejects: each catches its own error); the function goes on to its result
JoinLookups ==
    /\ call.pc = "lookups"
    /\ call.pending = {}
    /\ call' = FanResult
    /\ UNCHANGED <<availability, bookings, declined, busy, hasAccount, planLimit, req, users, save>>

\* the answer leaves the function
FanReturns ==
    /\ call.pc = "joined"
    /\ call' = NoCall
    /\ UNCHANGED <<availability, bookings, declined, busy, hasAccount, planLimit, req, users, save>>

FanNext ==
    \/ \E date \in DayStarts, d \in Durations : FanOutSlots(date, d)
    \/ \E w \in Windows(ReqTimes) : FanOutCheck(w.start, w.end)
    \/ \E id \in 1..2 : LookupAnswers(id)
    \/ \E id \in 1..2 : LookupThrows(id)
    \/ JoinLookups
    \/ FanReturns

SpecFan == LookupInit /\ [][FanNext]_vars

\* C32: the attendee lookups are joined before use and their completion
\* order does not matter: while a lookup is pending no result exists, and a
\* joined call has seen every lookup end, holds exactly the declined ids
\* that follow from which lookups threw and what the calendar says, and
\* returns the answer computed from that set, whatever order the lookups
\* completed in
C32_LookupsJoinedOrderFree ==
    /\ call.pc = "lookups" => (call.slots = <<>> /\ call.outcome = "none")
    /\ call.pc = "joined" =>
         /\ call.pending = {}
         /\ Range(call.completed) = {b.id : b \in FanLookups}
         /\ call.declinedIds = DeclinedIds(FanLookups, call.failed, declined)
         /\ call.op = "getAvailableSlots" =>
              call.slots = getAvailableSlots(availability, bookings, HostId,
                               DayDeclinedIds(hasAccount,
                                   BookingsInRange(bookings, HostId, startOfDay(call.date),
                                                   endOfDay(call.date)),
                                   call.failed, declined),
                               BusyInRange(hasAccount, busy, startOfDay(call.date),
                                           endOfDay(call.date)),
                               call.date, call.duration)
         /\ call.op = "checkSlotAvailable" =>
              (call.outcome = "ok") =
                  checkSlotAvailable(bookings, HostId, hasAccount, declined, call.failed,
                                     call.date, call.endDate)

\* C32 happens: a call has joined two lookups that completed against the
\* order they were issued in, the first issued reporting a declined guest
\* and the other throwing
C32_Witness ==
    /\ call.pc = "joined"
    /\ call.op = "getAvailableSlots"
    /\ call.completed = <<2, 1>>
    /\ call.declinedIds = {1}
    /\ call.failed = {2}
    /\ call.slots # <<>>

\* ======================================================================
\* The two availability queries side by side
\* ======================================================================

\* what getAvailableSlots answers for calendar day k on the store and the
\* calendar as they stand, every attendee lookup answering
SlotsOfDay(k, d) ==
    getAvailableSlots(availability, bookings, HostId,
        DayDeclinedIds(hasAccount,
                       BookingsInRange(bookings, HostId, DayStart(k), endOfDay(DayStart(k))),
                       {}, declined),
        BusyInRange(hasAccount, busy, DayStart(k), endOfDay(DayStart(k))),
        DayStart(k), d)

\* C33: with the same store and calendar answers, a day of the queried range
\* that is not before today is returned by getAvailableDates exactly when
\* getAvailableSlots returns at least one slot for that day, also when a
\* booking of that day has a declined guest
C33_QueriesAgree ==
    (DatesAnswered /\ ~call.busyThrew) =>
        \A k \in FormatDay(call.date)..FormatDay(call.endDate) :
            k >= FormatDay(call.now) =>
                (k \in Range(call.dates) <=> SlotsOfDay(k, call.duration) # <<>>)

\* ======================================================================
\* Slots at the end of the day
\* ======================================================================

\* the slots of window w cut from its own start: [S + k*d, S + (k+1)*d)
\* for every k that keeps the slot inside the window
WindowSlots(w, d) ==
    {[start |-> w.start + k * d, end |-> w.start + (k + 1) * d] :
        k \in {j \in 0..MaxInstant : w.start + (j + 1) * d <= w.end}}

\* C34: every slot of a stored window that starts on the queried day, is not
\* past and overlaps no stored booking of the host and no reported busy
\* interval is returned by getAvailableSlots for that day, also the slot that
\* ends at midnight and the slots of a window that spans midnight
C34_NoSlotLostAtDayBoundary ==
    SlotsAnswered({"getAvailableSlots"}) =>
        \A w \in Range(availability) : \A slot \in WindowSlots(w, call.duration) :
            ( /\ startOfDay(slot.start) = startOfDay(call.date)
              /\ slot.start >= call.now
              /\ \A b \in HostBookings :
                     ~Overlaps(slot.start, slot.end, b.startTime, b.endTime)
              /\ \A x \in ReportedBusy : ~Overlaps(slot.start, slot.end, x.start, x.end) )
                => slot \in Range(call.slots)

\* ======================================================================
\* createBooking when the store refuses the write
\* ======================================================================

\* step 7, writeClient.create rejects: nothing catches it, the error leaves
\* createBooking; the calendar event of step 6, if one was created, stays
PersistFails(p) ==
    /\ req[p].pc = "persist"
    /\ req' = [req EXCEPT ![p] = [@ EXCEPT !.pc = "done", !.outcome = "StoreError"]]
    /\ UNCHANGED <<availability, bookings, declined, busy, hasAccount, planLimit, call, users,
                   save>>

StoreNext ==
    \/ Next
    \/ \E p \in Procs : PersistFails(p)

SpecStore == Init /\ [][StoreNext]_vars

\* C35: a createBooking that created a calendar event and has ended has
\* stored a booking that carries the id of that event
C35_NoOrphanedEvent ==
    \A p \in Procs :
        (req[p].pc = "done" /\ req[p].googleEventId # 0)
            => \E b \in bookings : b.googleEventId = req[p].googleEventId

\* ======================================================================
\* One user document per identity
\* ======================================================================

\* the user documents of an identity
UsersOf(clerkId) == {i \in DOMAIN users : users[i].clerkId = clerkId}

\* C36: whatever the interleaving of getOrCreateUser calls for one identity,
\* the store holds at most one user document of that identity and every call
\* that returned got the id of that one document
C36_OneUserPerIdentity ==
    /\ Cardinality(UsersOf(ClerkId)) <= 1
    /\ \A p \in Savers :
         (save[p].pc \in {"patch", "done"} /\ save[p].user # 0)
             => UsersOf(ClerkId) = {save[p].user}

\* ======================================================================
\* getOrCreateBookingLink
\* ======================================================================

\* Date.now() at the moment a slug is made: two calls may or may not fall
\* in the same millisecond.  The slug `${baseSlug}-${Date.now().toString(36)}`
\* of one user differs between calls exactly when that instant differs
SlugTimes == 1..NumSave

\* auth(), then the fetch of USER_SLUG_QUERY is due
LinkAuth(p, userId) ==
    /\ save[p].pc = "idle"
    /\ \A q \in Savers : q < p => save[q].pc # "idle"
    /\ save' = [save EXCEPT ![p] =
                  IF userId = "null"
                  THEN [@ EXCEPT !.pc = "done", !.outcome = "Unauthorized"]
                  ELSE [@ EXCEPT !.pc = "linkFetch", !.userId = userId]]
    /\ UNCHANGED <<availability, bookings, declined, busy, hasAccount, planLimit, req, call,
                   users>>

\* client.fetch(USER_SLUG_QUERY, {clerkId}): no user, a user with a slug
\* (returned as it is), or a user without one
LinkFetchUser(p) ==
    /\ save[p].pc = "linkFetch"
    /\ LET user == UserIdByClerkId(users, save[p].userId)
       IN save' = [save EXCEPT ![p] =
                     IF user = 0
                     THEN [@ EXCEPT !.pc = "linkGetUser"]
                     ELSE IF users[user].slug # 0
                     THEN [@ EXCEPT !.pc = "done", !.user = user, !.outcome = "ok",
                                    !.slug = users[user].slug]
                     ELSE [@ EXCEPT !.pc = "linkPatch", !.user = user]]
    /\ UNCHANGED <<availability, bookings, declined, busy, hasAccount, planLimit, req, call,
                   users>>

\* no user was found: getOrCreateUser fetches again
LinkGetUser(p) ==
    /\ save[p].pc = "linkGetUser"
    /\ LET existingUser == UserIdByClerkId(users, save[p].userId)
       IN save' = [save EXCEPT ![p] =
                     IF existingUser # 0
                     THEN [@ EXCEPT !.pc = "linkPatch", !.user = existingUser]
                     ELSE [@ EXCEPT !.pc = "linkCreate"]]
    /\ UNCHANGED <<availability, bookings, declined, busy, hasAccount, planLimit, req, call,
                   users>>

\* getOrCreateUser creates the user document, without a slug
LinkCreateUser(p) ==
    /\ save[p].pc = "linkCreate"
    /\ users' = Append(users, [clerkId |-> save[p].userId, availability |-> <<>>,
                               writer |-> 0, slug |-> 0])
    /\ save' = [save EXCEPT ![p] = [@ EXCEPT !.pc = "linkPatch", !.user = Len(users) + 1]]
    /\ UNCHANGED <<availability, bookings, declined, busy, hasAccount, planLimit, req, call>>

\* the slug is made from the name and the clock, the patch sets it on the
\* user document, and it is returned
LinkPatch(p, t) ==
    /\ save[p].pc = "linkPatch"
    /\ users' = [users EXCEPT ![save[p].user] = [@ EXCEPT !.slug = t]]
    /\ save' = [save EXCEPT ![p] = [@ EXCEPT !.pc = "done", !.outcome = "ok", !.slug = t]]
    /\ UNCHANGED <<availability, bookings, declined, busy, hasAccount, planLimit, req, call>>

\* the user document before the calls: none, one without a slug, or one
\* whose slug an earlier call made
LinkInit ==
    /\ availability = <<>>
    /\ bookings = {}
    /\ declined = {}
    /\ busy = {}
    /\ hasAccount = FALSE
    /\ planLimit = MaxPlanLimit
    /\ req = [p \in Procs |-> NoReq]
    /\ call = NoCall
    /\ users \in {<<>>} \cup
                 {<<[clerkId |-> ClerkId, availability |-> av, writer |-> 0, slug |-> s]>> :
                      av \in {<<>>, OldAvailability}, s \in {0} \cup SlugTimes}
    /\ save = [p \in Savers |-> NoSave]

LinkNext ==
    \/ \E p \in Savers, userId \in {ClerkId, "null"} : LinkAuth(p, userId)
    \/ \E p \in Savers : LinkFetchUser(p)
    \/ \E p \in Savers : LinkGetUser(p)
    \/ \E p \in Savers : LinkCreateUser(p)
    \/ \E p \in Savers, t \in SlugTimes : LinkPatch(p, t)

SpecLink == LinkInit /\ [][LinkNext]_vars

\* C37: a slug returned by getOrCreateBookingLink is and stays the stored
\* slug of the user it was returned for: no later or concurrent call
\* overwrites it
C37_ReturnedSlugStaysStored ==
    \A p \in Savers :
        (save[p].pc = "done" /\ save[p].outcome = "ok")
            => users[save[p].user].slug = save[p].slug

\* ======================================================================
\* The loops for any slot duration
\* ======================================================================

\* slotDurationMinutes is a plain number that no query validates: zero and
\* negative values reach the loops
AnyDurations == (0 - 1)..MaxDuration

\* one iteration of the slot loop in a process with finite memory and
\* bounded dates: an iteration that would grow an array past MaxInstant
\* entries, or move currentStart more than MaxInstant before the first
\* instant, is cut off and its call never returns
WhileSlotBounded ==
    /\ Len(call.candidates) <= MaxInstant
    /\ Len(call.slots) <= MaxInstant
    /\ call.currentStart >= 0 - MaxInstant
    /\ WhileSlot

LoopAnyStep == WhileSlotBounded \/ NextWindow \/ SlotsDone \/ WhileDay \/ DaysDone

LoopAnyNext ==
    \/ \E date \in DayStarts, d \in AnyDurations : LoopGetAvailableSlots(date, d)
    \/ \E date \in DayStarts, d \in AnyDurations, now \in ReqTimes :
           LoopComputeAvailableSlots(date, d, now)
    \/ \E startDate \in DayStarts, endDate \in DateInputs, d \in AnyDurations,
          now \in DayStarts :
           LoopComputeAvailableDates(startDate, endDate, d, now)
    \/ WhileSlotBounded
    \/ NextWindow
    \/ SlotsDone
    \/ WhileDay
    \/ DaysDone
    \/ LoopReturns

SpecLoopAny == LoopInit /\ [][LoopAnyNext]_vars /\ WF_vars(LoopAnyStep)

\* C38: for every slot duration a caller can pass, zero and negative ones
\* included, each availability query whose loops have started returns
C38_TerminatesForAnyDuration == (call.pc \in {"slots", "days"}) ~> (call.pc = "done")

\* ======================================================================
\* generateSlug
\* ======================================================================

\* the characters of a text: a lower-case letter or digit, an upper-case
\* letter, the hyphen, and any other character
Chars == {"a", "A", "-", "_"}
Texts == UNION {[1..n -> Chars] : n \in 0..MaxTextLen}

\* substring(0, 50): the length limit of the code, scaled to the model's
\* short texts
SlugLimit == 3

\* text.toLowerCase()
toLowerCase(s) == [i \in DOMAIN s |-> IF s[i] = "A" THEN "a" ELSE s[i]]

\* [a-z0-9]
IsAlnum(c) == c = "a"

\* .replace(/[^a-z0-9]+/g, "-"): every maximal run of other characters
\* becomes one hyphen
RECURSIVE ReplaceRuns(_)
ReplaceRuns(s) ==
    IF s = <<>>
    THEN <<>>
    ELSE IF IsAlnum(Head(s))
    THEN <<Head(s)>> \o ReplaceRuns(Tail(s))
    ELSE IF Len(s) > 1 /\ ~IsAlnum(s[2])
    THEN ReplaceRuns(Tail(s))
    ELSE <<"-">> \o ReplaceRuns(Tail(s))

\* .replace(/^-|-$/g, ""): a hyphen at the very start and a hyphen at the
\* very end are removed
StripEnds(s) ==
    LET front == IF s # <<>> /\ Head(s) = "-" THEN Tail(s) ELSE s
    IN  IF front # <<>> /\ front[Len(front)] = "-"
        THEN SubSeq(front, 1, Len(front) - 1)
        ELSE front

\* .substring(0, limit)
substring(s, limit) == IF Len(s) <= limit THEN s ELSE SubSeq(s, 1, limit)

generateSlug(text) == substring(StripEnds(ReplaceRuns(toLowerCase(text))), SlugLimit)

\* a text is given
SlugInit ==
    /\ availability = <<>>
    /\ bookings = {}
    /\ declined = {}
    /\ busy = {}
    /\ hasAccount = FALSE
    /\ planLimit = MaxPlanLimit
    /\ req = [p \in Procs |-> NoReq]
    /\ call \in {[NoCall EXCEPT !.text = t] : t \in Texts}
    /\ users = <<>>
    /\ save = [p \in Savers |-> NoSave]

\* generateSlug(text), and generateSlug of its result
GenerateSlug ==
    /\ call.op = "none"
    /\ call' = [call EXCEPT !.op = "generateSlug", !.slug = generateSlug(call.text),
                            !.slugAgain = generateSlug(generateSlug(call.text))]
    /\ UNCHANGED <<availability, bookings, declined, busy, hasAccount, planLimit, req, users, save>>

SlugNext == GenerateSlug

SpecSlug == SlugInit /\ [][SlugNext]_vars

\* C39: generateSlug returns at most the limit of characters, only
\* lower-case letters, digits and single hyphens, with no hyphen at the start
\* or at the end, and applying it to its own result changes nothing
C39_SlugWellFormedAndIdempotent ==
    call.op = "generateSlug" =>
        LET s == call.slug
        IN  /\ Len(s) <= SlugLimit
            /\ \A i \in DOMAIN s : s[i] \in {"a", "-"}
            /\ \A i \in DOMAIN s : (i > 1 /\ s[i] = "-") => s[i - 1] # "-"
            /\ s # <<>> => (s[1] # "-" /\ s[Len(s)] # "-")
            /\ call.slugAgain = s

=============================================================================
